---------------------------- MODULE Spec2Model ----------------------------
(***************************************************************************)
(* A model of the AI CLI agent's orchestration loop                        *)
(* (cli-agent/src/ai-interaction.ts: AIInteraction) and of its tool        *)
(* catalog and dispatcher (mcp-interaction: MCPInteraction).               *)
(*                                                                         *)
(* Texts are sequences of characters.  Texts whose letters matter (the    *)
(* evaluation responses the completion heuristic reads) are spelled out   *)
(* one character per element; fixed template fragments and opaque         *)
(* payloads are written as one element each.                               *)
(*                                                                         *)
(* Specifications:                                                         *)
(*   Spec         one chatWithAI run (Reason / RunTools / Evaluate loop)   *)
(*   SpecMCP      getMCPTools and callMCPTool over a provider list         *)
(*   SpecEvaluate the completion decision of Evaluate over response texts  *)
(*   SpecServer   the file server's call-tool handler over a small file tree *)
(*   SpecCLI      the command-line program: options, initialize, the menu,   *)
(*                chatWithAI runs and the SIGINT handler                     *)
(***************************************************************************)
EXTENDS Integers, Sequences, FiniteSets, TLC

VARIABLES
    mode,             \* which operation family the behaviour exercises
    mcpServers,       \* MCPInteraction.mcpServers: provider names, registration order
    listThrows,       \* indices of the providers whose listTools() throws
    catalog,          \* the value the last getMCPTools() returned
    callName,         \* toolName of the last callMCPTool
    callOutcome,      \* what each provider's callTool did with the last callMCPTool's request
    invoked,          \* provider indices whose callTool was invoked by the last callMCPTool, in order
    callResult,       \* what the last callMCPTool did: returned a response or threw
    response,         \* the answer of the backend call that returned last (Reason, RunTools, Evaluate: response)
    responseText,     \* Evaluate: responseText
    isComplete,       \* Evaluate: isComplete
    finalResponse,    \* Evaluate: finalResponse
    pc,               \* chatWithAI: position of the run
    userRequest,      \* chatWithAI: userRequest
    iterations,       \* chatWithAI: iterations
    allToolResults,   \* chatWithAI: allToolResults
    reasoning,        \* chatWithAI: reasoning (this iteration's plan)
    toolResults,      \* RunTools: results / chatWithAI: toolResults (this iteration)
    pending,          \* RunTools: tool calls of the response not yet executed
    inFlight,         \* the backend request being awaited, if any
    lastRequest,      \* the last request handed to ollama.chat
    backendCalls,     \* every backend request of the run, in order: phase and iteration
    runToolsReturns,  \* the result list of every RunTools call that has returned, in order
    console,          \* the final-response and iteration-limit lines printed so far
    backend,          \* the reasoning backend in this run: up, flaky or down
    failures,         \* backend calls of the run that returned no response
    requested,        \* tool-call requests the backend has issued in the run
    options,          \* program.action: the parsed command-line options
    currentModel,     \* AIInteraction.currentModel
    agentModel,       \* AICLIAgent.currentModel
    cli,              \* position of the command-line program
    process,          \* the agent's process: running, or how it exited
    modelChanged,     \* changeModel has set the model in this session
    request,          \* file server: params of the call-tool request handled last
    accessed,         \* file server: the paths the handler handed to stat, readdir, readFile
    serverResult,     \* file server: what the call-tool handler did with the request
    sessions,         \* overlapping chatWithAI invocations: position and history of each
    locals,           \* overlapping chatWithAI invocations: iterations and allToolResults of each call frame
    chat,             \* sendAIRequest: what ollama.chat did with the request
    conversation      \* chatWithAI (messages-based): messages

vars == << mode, mcpServers, listThrows, catalog, callName, callOutcome,
           invoked, callResult, response, responseText, isComplete, finalResponse,
           pc, userRequest, iterations, allToolResults, reasoning, toolResults,
           pending, inFlight, lastRequest, backendCalls, runToolsReturns,
           console, backend, failures, requested, options, currentModel, agentModel, cli,
           process, modelChanged, request, accessed, serverResult,
           sessions, locals, chat, conversation >>

cliVars == << options, currentModel, agentModel, cli, process, modelChanged >>
serverVars == << request, accessed, serverResult >>
variantVars == << sessions, locals, chat, conversation >>
mcpVars == << catalog, callName, callOutcome, invoked, callResult >>
evalVars == << response, responseText, isComplete, finalResponse >>
loopVars == << pc, userRequest, iterations, allToolResults, reasoning, toolResults,
               pending, inFlight, lastRequest, backendCalls, runToolsReturns,
               console, backend, failures, requested >>

-----------------------------------------------------------------------------
(* Bounds of the model *)

\* Longest provider list registered.
MaxProviders == 3
\* Most text fragments a generated evaluation response is built from.
MaxFragments == 3
\* Most calls a flaky backend leaves without a response in one run.
MaxFailures == 2
\* Most tool-call requests the backend issues in one run.
MaxRequests == 2
\* Most segments of a path argument sent to the file server.
MaxSegments == 3
\* Most tool-call requests the backend issues in one run of a command-line session.
MaxCliRequests == 1

-----------------------------------------------------------------------------
(* Texts *)

UpperCase == << "A", "B", "C", "D", "E", "F", "G", "H", "I", "J", "K", "L", "M",
                "N", "O", "P", "Q", "R", "S", "T", "U", "V", "W", "X", "Y", "Z" >>
LowerCase == << "a", "b", "c", "d", "e", "f", "g", "h", "i", "j", "k", "l", "m",
                "n", "o", "p", "q", "r", "s", "t", "u", "v", "w", "x", "y", "z" >>

\* String.prototype.toLowerCase, one character.
LowerChar(c) ==
    IF \E i \in 1..Len(UpperCase) : UpperCase[i] = c
    THEN LowerCase[CHOOSE i \in 1..Len(UpperCase) : UpperCase[i] = c]
    ELSE c

\* String.prototype.toLowerCase.
ToLowerCase(s) == [i \in 1..Len(s) |-> LowerChar(s[i])]

\* String.prototype.includes: sub occurs in s as a contiguous run.
Includes(s, sub) ==
    \E k \in 0..(Len(s) - Len(sub)) :
        \A i \in 1..Len(sub) : s[k + i] = sub[i]

RECURSIVE Join(_, _)
\* Array.prototype.join over an array of texts.
Join(texts, sep) ==
    IF Len(texts) = 0 THEN << >>
    ELSE IF Len(texts) = 1 THEN texts[1]
    ELSE texts[1] \o sep \o Join(Tail(texts), sep)

\* a || b on strings: the empty string is falsy.
OrElse(a, b) == IF a = << >> THEN b ELSE a

-----------------------------------------------------------------------------
(* Providers (MCP servers) and their tools *)

NoSchema == [type |-> "undefined", properties |-> {}, required |-> {}]
DefaultSchema == [type |-> "object", properties |-> {}, required |-> {}]

\* The tools each provider lists.  filesystem-server is the repository's own
\* file server; the other two stand for any further registered provider: one
\* repeats a name of the file server and gives neither description nor schema.
ProviderTools(p) ==
    CASE p = "filesystem-server" ->
           << [name |-> "list_files",
               description |-> << "List files and directories in a given path" >>,
               inputSchema |-> [type |-> "object", properties |-> {"path"}, required |-> {}]],
              [name |-> "list_directories",
               description |-> << "List only directories in a given path" >>,
               inputSchema |-> [type |-> "object", properties |-> {"path"}, required |-> {}]],
              [name |-> "get_file_content",
               description |-> << "Get the content of a specific file" >>,
               inputSchema |-> [type |-> "object", properties |-> {"path"}, required |-> {"path"}]] >>
      [] p = "mirror-server" ->
           << [name |-> "list_files", description |-> << >>, inputSchema |-> NoSchema] >>
      [] OTHER ->
           << [name |-> "search",
               description |-> << "Search the index" >>,
               inputSchema |-> [type |-> "object", properties |-> {"query"}, required |-> {"query"}]] >>

Providers == {"filesystem-server", "mirror-server", "search-server"}

ToolNames == {"list_files", "list_directories", "get_file_content", "search"}


-----------------------------------------------------------------------------
(* MCPInteraction.getMCPTools *)

\* Convert MCP tool -> Ollama tool format; a missing inputSchema becomes the
\* empty object schema.
OllamaTool(t) ==
    [type |-> "function",
     function |-> [name |-> t.name,
                   description |-> t.description,
                   parameters |-> IF t.inputSchema = NoSchema
                                  THEN DefaultSchema ELSE t.inputSchema]]

\* response.tools.map(...)
MapTools(tools) == [i \in 1..Len(tools) |-> OllamaTool(tools[i])]

\* One pass of the for loop without its catch: a throwing listTools ends the call.
ListToolsOfUncaught(server, throws, allTools) ==
    IF throws
    THEN [threw |-> TRUE, tools |-> allTools]
    ELSE [threw |-> FALSE, tools |-> allTools \o MapTools(ProviderTools(server))]

\* One pass of the for loop over this.mcpServers: a provider whose listTools
\* throws is caught and logged, and allTools is left as it was.
ListToolsOf(server, throws, allTools) ==
    IF throws
    THEN [threw |-> FALSE, tools |-> allTools]
    ELSE [threw |-> FALSE, tools |-> allTools \o MapTools(ProviderTools(server))]

RECURSIVE GetToolsFrom(_, _, _, _)
GetToolsFrom(servers, throwing, i, allTools) ==
    IF i > Len(servers)
    THEN [threw |-> FALSE, tools |-> allTools]
    ELSE LET step == ListToolsOf(servers[i], i \in throwing, allTools)
         IN  IF step.threw THEN step
             ELSE GetToolsFrom(servers, throwing, i + 1, step.tools)

GetMCPTools(servers, throwing) == GetToolsFrom(servers, throwing, 1, << >>)

-----------------------------------------------------------------------------
(* MCPInteraction.callMCPTool *)

\* What a provider's callTool does with one request.
CallOutcomes == {"throw", "ok", "errorContent"}

\* The response of a provider that answers: its payload, or (as the file
\* server does for a request it cannot serve) an error reported as content.
ProviderResponse(server, outcome, toolName) ==
    [content |-> << [type |-> "text",
                     text |-> IF outcome = "ok"
                              THEN << "[", toolName, "@", server, "]" >>
                              ELSE IF server = "filesystem-server" /\ toolName = "get_file_content"
                              THEN << "Error: ", "File path is required" >>
                              ELSE << "Error: ", "Unknown tool: ", toolName >>] >>]

\* The error thrown without the name of the tool.
NotFoundErrorAnonymous(toolName) == << "Tool not found on any MCP server" >>

\* new Error(`Tool ${toolName} not found on any MCP server`)
NotFoundError(toolName) == << "Tool ", toolName, " not found on any MCP server" >>

\* The body of the for loop without its catch: a provider's throw ends the call.
TryServerUncaught(servers, outcome, toolName, i, tried) ==
    IF outcome[i] = "throw"
    THEN [done |-> TRUE, threw |-> TRUE, value |-> << "callTool failed" >>,
          invoked |-> Append(tried, i)]
    ELSE [done |-> TRUE, threw |-> FALSE,
          value |-> ProviderResponse(servers[i], outcome[i], toolName),
          invoked |-> Append(tried, i)]

\* The body of the for loop taking an error reported as content for a failure
\* and going on to the next provider.
TryServerErrorsSkipped(servers, outcome, toolName, i, tried) ==
    IF outcome[i] \in {"throw", "errorContent"}
    THEN [done |-> FALSE, threw |-> FALSE, value |-> << >>, invoked |-> Append(tried, i)]
    ELSE [done |-> TRUE, threw |-> FALSE,
          value |-> ProviderResponse(servers[i], outcome[i], toolName),
          invoked |-> Append(tried, i)]

\* The body of the for loop for provider i: return its response, or catch
\* and continue with the next provider.
TryServer(servers, outcome, toolName, i, tried) ==
    IF outcome[i] = "throw"
    THEN [done |-> FALSE, threw |-> FALSE, value |-> << >>, invoked |-> Append(tried, i)]
    ELSE [done |-> TRUE, threw |-> FALSE,
          value |-> ProviderResponse(servers[i], outcome[i], toolName),
          invoked |-> Append(tried, i)]

\* The for loop stepping over every other provider.
NextServerSkipping(i) == i + 2

\* The order in which the for loop visits the providers.
NextServer(i) == i + 1

RECURSIVE CallFrom(_, _, _, _, _)
CallFrom(servers, outcome, toolName, i, tried) ==
    IF i > Len(servers) \/ i < 1
    THEN [done |-> TRUE, threw |-> TRUE, value |-> NotFoundError(toolName), invoked |-> tried]
    ELSE LET step == TryServer(servers, outcome, toolName, i, tried)
         IN  IF step.done THEN step
             ELSE CallFrom(servers, outcome, toolName, NextServer(i), step.invoked)

CallMCPTool(servers, outcome, toolName) == CallFrom(servers, outcome, toolName, 1, << >>)

-----------------------------------------------------------------------------
(* The reasoning backend's answers *)

\* sendAIRequest returned null.
NullResponse == [null |-> TRUE, content |-> << >>, tool_calls |-> << >>]

\* A ChatResponse: message.content and message.tool_calls.
ChatResponse(content, calls) == [null |-> FALSE, content |-> content, tool_calls |-> calls]

-----------------------------------------------------------------------------
(* AIInteraction.Evaluate: the completion decision *)

DoneMarker == << "*", "*", "d", "o", "n", "e", "*", "*" >>
TaskEvaluationComplete ==
    << "t", "a", "s", "k", " ", "e", "v", "a", "l", "u", "a", "t", "i", "o", "n", ":",
       " ", "c", "o", "m", "p", "l", "e", "t", "e" >>
CompleteWord == << "c", "o", "m", "p", "l", "e", "t", "e" >>
TaskWord == << "t", "a", "s", "k" >>

\* "Failed to evaluate task completion"
\* The fallback text of Evaluate worded with the words the heuristic looks for.
EvaluateFailedCompleteTask ==
    << "F", "a", "i", "l", "e", "d", " ", "t", "o", " ", "c", "o", "m", "p", "l", "e",
       "t", "e", " ", "t", "a", "s", "k", " ", "e", "v", "a", "l", "u", "a", "t", "i",
       "o", "n" >>

EvaluateFailed ==
    << "F", "a", "i", "l", "e", "d", " ", "t", "o", " ", "e", "v", "a", "l", "u", "a",
       "t", "e", " ", "t", "a", "s", "k", " ", "c", "o", "m", "p", "l", "e", "t", "i",
       "o", "n" >>

\* The response text taken without its fallback.
EvaluateResponseTextUnchecked(resp) == resp.content

\* response?.message.content || "Failed to evaluate task completion"
EvaluateResponseText(resp) ==
    IF resp.null THEN EvaluateFailed ELSE OrElse(resp.content, EvaluateFailed)

\* The heuristic without its third rule.
CompletionHeuristicMarkersOnly(lowerResponse) ==
    \/ Includes(lowerResponse, DoneMarker)
    \/ Includes(lowerResponse, TaskEvaluationComplete)

\* The heuristic with its third rule asking for either word.
CompletionHeuristicEitherWord(lowerResponse) ==
    \/ Includes(lowerResponse, DoneMarker)
    \/ Includes(lowerResponse, TaskEvaluationComplete)
    \/ (Includes(lowerResponse, CompleteWord) \/ Includes(lowerResponse, TaskWord))

\* The heuristic over lowerResponse.
CompletionHeuristic(lowerResponse) ==
    \/ Includes(lowerResponse, DoneMarker)
    \/ Includes(lowerResponse, TaskEvaluationComplete)
    \/ (Includes(lowerResponse, CompleteWord) /\ Includes(lowerResponse, TaskWord))

\* isComplete for a response text.
IsComplete(text) == CompletionHeuristic(ToLowerCase(text))

\* What Evaluate returns for the backend's answer.
EvaluateResult(resp) ==
    LET text == EvaluateResponseText(resp)
    IN  [isComplete |-> IsComplete(text), finalResponse |-> text]

-----------------------------------------------------------------------------
(* Evaluation responses *)

TextDone == << "*", "*", "D", "O", "N", "E", "*", "*" >>
TextEvaluationComplete ==
    << "T", "a", "s", "k", " ", "E", "v", "a", "l", "u", "a", "t", "i", "o", "n", ":",
       " ", "C", "o", "m", "p", "l", "e", "t", "e" >>
TextNotCompleteYet ==
    << "t", "h", "e", " ", "t", "a", "s", "k", " ", "i", "s", " ", "n", "o", "t", " ",
       "c", "o", "m", "p", "l", "e", "t", "e", " ", "y", "e", "t" >>
TextStillWorking ==
    << "s", "t", "i", "l", "l", " ", "w", "o", "r", "k", "i", "n", "g", " ", "o", "n",
       " ", "i", "t" >>

\* Pieces an evaluation response is put together from.
EvalFragments ==
    { TextDone, TextEvaluationComplete, TextNotCompleteYet, TextStillWorking,
      << "C", "O", "M", "P", "L", "E", "T", "E" >>,
      << "c", "o", "m", "p", "l", "e", "t", "i", "o", "n" >>,
      << "T", "a", "s" >>, << "k" >>, << "c", "o", "m", "p" >>, << "l", "e", "t", "e" >>,
      << " ", "-", " " >>, << "*", "*" >>, << "d", "o", "n", "e" >> }

RECURSIVE TextsOf(_)
\* Every text made of at most n fragments.
TextsOf(n) ==
    IF n = 0 THEN { << >> }
    ELSE LET shorter == TextsOf(n - 1)
         IN  shorter \cup { t \o f : t \in shorter, f \in EvalFragments }

EvalResponses == { NullResponse } \cup { ChatResponse(t, << >>) : t \in TextsOf(MaxFragments) }

-----------------------------------------------------------------------------
(* AIInteraction: prompts and requests *)

\* Loop bound of chatWithAI: while (iterations < 10).
MaxIterations == 10
\* Threshold of the report after the loop: if (iterations >= 5).
ReportThreshold == 5

\* `${t.function.name}: ${t.function.description || "No description"}` joined by "\n"
ToolLines(tools) ==
    Join([i \in 1..Len(tools) |->
              << tools[i].function.name, ": " >>
                  \o OrElse(tools[i].function.description, << "No description" >>)],
         << "\n" >>)

NoContext == [defined |-> FALSE, text |-> << >>]

\* The context built from the latest result only.
ReasonContextLatest(results) ==
    IF Len(results) > 0
    THEN [defined |-> TRUE,
          text |-> << "Previous tool results: " >> \o results[Len(results)]]
    ELSE [defined |-> FALSE, text |-> << >>]

\* The context argument chatWithAI hands to Reason.
ReasonContext(results) ==
    IF Len(results) > 0
    THEN [defined |-> TRUE,
          text |-> << "Previous tool results: " >> \o Join(results, << "\n\n" >>)]
    ELSE NoContext

\* Reason: reasoningPrompt.
\* The reasoning prompt without its context line.
ReasonPromptContextDropped(message, context, tools) ==
    << "You are an AI assistant that needs to analyze a user request and create a plan to solve it.\n\nUser Request: " >>
        \o message \o << "\n" >>
        \o << "\n\nYour task is to: ... \n\nAvailable tools: " >>
        \o ToolLines(tools)
        \o << "\n\nRespond with your reasoning and plan. ..." >>

ReasonPrompt(message, context, tools) ==
    << "You are an AI assistant that needs to analyze a user request and create a plan to solve it.\n\nUser Request: " >>
        \o message \o << "\n" >>
        \o (IF context.defined /\ context.text # << >>
            THEN << "\nContext: " >> \o context.text ELSE << >>)
        \o << "\n\nYour task is to: ... \n\nAvailable tools: " >>
        \o ToolLines(tools)
        \o << "\n\nRespond with your reasoning and plan. ..." >>

\* RunTools: toolExecutionPrompt.
ToolExecutionPrompt(plan, originalMessage, tools) ==
    << "Based on the reasoning below, execute the necessary tools to gather information or perform actions.\n\nReasoning: " >>
        \o plan
        \o << "\n\nOriginal User Request: " >> \o originalMessage
        \o << "\n\nAvailable tools: " >> \o ToolLines(tools)
        \o << "\n\nYour task is to: ... Be thorough and systematic in your approach." >>

\* Evaluate: evaluationPrompt.
EvaluationPrompt(originalMessage, plan, results) ==
    << "You are evaluating whether a task has been completed successfully.\n\nOriginal User Request: " >>
        \o originalMessage
        \o << "\n\nInitial Reasoning: " >> \o plan
        \o << "\n\nTool Results: " >> \o Join(results, << "\n\n---\n\n" >>)
        \o << "\n\nYour task is to: ... Be honest about whether you have enough information to fully answer the user's request." >>

Messages(system, user) ==
    << [role |-> "system", content |-> system], [role |-> "user", content |-> user] >>

\* The tools field filled in whenever tools are listed: tools.length > 0 ? tools : undefined
RequestToolsAlways(useTools, tools) ==
    IF Len(tools) > 0
    THEN [defined |-> TRUE, tools |-> tools]
    ELSE [defined |-> FALSE, tools |-> << >>]

\* The tools field of the chat request: useTools ? (tools.length > 0 ? tools : undefined) : undefined
RequestTools(useTools, tools) ==
    IF useTools /\ Len(tools) > 0
    THEN [defined |-> TRUE, tools |-> tools]
    ELSE [defined |-> FALSE, tools |-> << >>]

\* sendAIRequest up to the call of ollama.chat: the request handed to the
\* backend, or (a throw inside the try block) no request and a null result.
SendAIRequest(messages, useTools, cat) ==
    IF cat.threw
    THEN [sent |-> FALSE, model |-> currentModel, messages |-> messages,
          tools |-> RequestTools(FALSE, << >>)]
    ELSE [sent |-> TRUE, model |-> currentModel, messages |-> messages,
          tools |-> RequestTools(useTools, cat.tools)]

NoRequest == [sent |-> FALSE, model |-> "", messages |-> << >>,
              tools |-> RequestTools(FALSE, << >>)]
Idle == [phase |-> "none", iteration |-> 0]

\* "Failed to generate reasoning"
ReasoningFailed == << "Failed to generate reasoning" >>
\* "Failed to get response from AI"
RunToolsFailed == << "Failed to get response from AI" >>
\* The else branch of RunTools recording the line it logs instead of the sentinel.
NoToolsExecutedLogged == << "No tools needed for this step" >>

\* "No tools were executed"
NoToolsExecuted == << "No tools were executed" >>
\* `Tool execution failed: ${error}`, error an Error with the given message
ToolExecutionFailed(message) == << "Tool execution failed: ", "Error: " >> \o message

MaximumIterationsReached == << "Maximum iterations reached" >>
LimitResponse ==
    << "I've reached the maximum number of iterations. Here's what I was able to accomplish with the available information." >>

\* The console lines the model records.
FinalResponseLine(text) == [kind |-> "Final Response", text |-> text]
ErrorLine(text) == [kind |-> "error", text |-> text]

-----------------------------------------------------------------------------
(* The environment of a run *)

UserRequests == { << "list files in the current directory" >> }

PlanTexts == { << "Plan: call list_files on the current directory" >> }

LoopEvalTexts == { TextDone, TextStillWorking }

\* Tool-call requests the backend may emit: a tool the file server lists and
\* a tool no provider lists.
ToolCallRequests ==
    { [name |-> "list_files", arguments |-> { << "path", "." >> }],
      [name |-> "make_coffee", arguments |-> { }] }

\* The provider lists an agent runs the loop with: startMCPServers registers
\* the file server, or nothing when it fails to start.
RegisteredLists == { << >>, << "filesystem-server" >> }

\* What a registered provider does with a request that reaches it: it
\* serves the tools it lists and reports any other as an error in its content.
ServerAnswer(server, toolName) ==
    IF \E i \in 1..Len(ProviderTools(server)) : ProviderTools(server)[i].name = toolName
    THEN "ok" ELSE "errorContent"

\* The requests of a RunTools call looked at on its own: also requests for
\* get_file_content, with the path its schema requires and without it, and
\* for the tool of a further provider.
ActToolCallRequests ==
    ToolCallRequests
        \cup { [name |-> "get_file_content", arguments |-> { << "path", "notes.txt" >> }],
               [name |-> "get_file_content", arguments |-> { }],
               [name |-> "search", arguments |-> { << "query", "notes" >> }] }

\* The provider lists RunTools is looked at with: those of a run, and the
\* file server followed by a further provider.
ActRegisteredLists ==
    RegisteredLists \cup { << "filesystem-server", "search-server" >> }

\* The argument names a request gives.
ArgumentNames(toolCall) == { a[1] : a \in toolCall.arguments }

\* What a registered provider does with the request it is handed: it serves a
\* tool it lists when the arguments its schema requires are there, and
\* reports anything else as an error in its content.
ServerAnswerTo(server, toolCall) ==
    IF \E i \in 1..Len(ProviderTools(server)) :
           /\ ProviderTools(server)[i].name = toolCall.name
           /\ ProviderTools(server)[i].inputSchema.required \subseteq ArgumentNames(toolCall)
    THEN "ok" ELSE "errorContent"

RECURSIVE CallListsOf(_, _)
\* Every non-empty list of at most n of the given tool-call requests.
CallListsOf(requests, n) ==
    IF n <= 0 THEN { }
    ELSE { << c >> : c \in requests }
           \cup { Append(l, c) : l \in CallListsOf(requests, n - 1), c \in requests }

\* Every non-empty list of at most n tool-call requests.
CallLists(n) == CallListsOf(ToolCallRequests, n)

-----------------------------------------------------------------------------
(* chatWithAI: one run of the loop *)

\* The answers the backend may give to the request in flight.  A backend that
\* is down answers nothing, a flaky one leaves some calls unanswered and asks
\* for no tools, one that is up answers every call and may ask for tools.
\* A request that never reached the backend has no answer.
MayFail == backend = "down" \/ (backend = "flaky" /\ failures < MaxFailures) \/ ~lastRequest.sent
MustFail == backend = "down" \/ ~lastRequest.sent

\* The tool-call lists the backend may still put in an answer.
MayRequest ==
    IF backend = "up"
    THEN IF mode = "act"
         THEN CallListsOf(ActToolCallRequests, MaxRequests - requested)
         ELSE CallLists((IF mode = "cli" THEN MaxCliRequests ELSE MaxRequests) - requested)
    ELSE { }

Failed(resp) == IF resp.null THEN failures + 1 ELSE failures

\* The loop test off by one: while (iterations <= 10).
LoopConditionInclusive(i) == i <= MaxIterations

\* while (iterations < 10)
LoopCondition(i) == i < MaxIterations

\* if (iterations >= 5)
ReportCondition(i) == i >= ReportThreshold

\* A chatWithAI run is under way in a live process.
Running == mode \in {"loop", "cli", "act"} /\ process = "running" /\ cli = "chat"

\* The tool catalog as the run's providers list it now.
CurrentTools == GetMCPTools(mcpServers, listThrows)

\* chatWithAI up to the loop: the tools are listed, the counters initialised.
ChatWithAI ==
    /\ Running
    /\ pc = "idle"
    /\ catalog' = CurrentTools
    /\ IF CurrentTools.threw
       THEN pc' = "error" /\ UNCHANGED << iterations, allToolResults >>
       ELSE /\ pc' = "loop"
            /\ iterations' = 0
            /\ allToolResults' = << >>
    /\ UNCHANGED << cliVars, serverVars, variantVars, mode, mcpServers, listThrows, callName, callOutcome, invoked, callResult,
                    evalVars, userRequest, reasoning, toolResults, pending,
                    inFlight, lastRequest, backendCalls, runToolsReturns, console,
                    backend, failures, requested >>

\* A backend request goes out: the phase's prompt is built and handed to
\* sendAIRequest, which lists the tools again and calls ollama.chat.
Send(phase, system, user, useTools) ==
    /\ catalog' = CurrentTools
    /\ IF CurrentTools.threw
       THEN /\ pc' = "error"
            /\ UNCHANGED << inFlight, lastRequest, backendCalls >>
       ELSE LET req == SendAIRequest(Messages(system, user), useTools, CurrentTools)
            IN  /\ lastRequest' = req
                /\ inFlight' = [phase |-> phase, iteration |-> iterations]
                /\ backendCalls' =
                       IF req.sent
                       THEN Append(backendCalls, [phase |-> phase, iteration |-> iterations])
                       ELSE backendCalls
                /\ pc' = phase

\* Phase 1, the call: Reason builds its prompt and awaits the backend.
ReasonSend ==
    /\ Running
    /\ pc = "loop"
    /\ LoopCondition(iterations)
    /\ Send("Reason",
            ReasonPrompt(userRequest, ReasonContext(allToolResults), CurrentTools.tools),
            userRequest, FALSE)
    /\ reasoning' = << >>
    /\ toolResults' = << >>
    /\ response' = NullResponse
    /\ responseText' = << >>
    /\ isComplete' = FALSE
    /\ finalResponse' = << >>
    /\ UNCHANGED << cliVars, serverVars, variantVars, mode, mcpServers, listThrows, callName, callOutcome, invoked, callResult,
                    userRequest, iterations, allToolResults, pending,
                    runToolsReturns, console, backend, failures, requested >>

\* The plan taken from the response without its fallback.
ReasonResultUnchecked(resp) == resp.content

\* What Reason returns: response?.message.content || "Failed to generate reasoning"
ReasonResult(resp) ==
    IF resp.null THEN ReasoningFailed ELSE OrElse(resp.content, ReasoningFailed)

\* Phase 1, the answer.
ReasonReturn ==
    /\ Running
    /\ pc = "Reason"
    /\ \E resp \in { NullResponse } \cup { ChatResponse(t, << >>) : t \in PlanTexts } :
          /\ resp.null => MayFail
          /\ MustFail => resp.null
          /\ reasoning' = ReasonResult(resp)
          /\ failures' = Failed(resp)
          /\ response' = resp
    /\ inFlight' = Idle
    /\ pc' = "act"
    /\ UNCHANGED << cliVars, serverVars, variantVars, mode, mcpServers, listThrows, mcpVars, responseText, isComplete,
                    finalResponse, userRequest,
                    iterations, allToolResults, toolResults, pending, lastRequest,
                    backendCalls, runToolsReturns, console, backend, requested >>

\* Phase 2, the call: RunTools builds its prompt and awaits the backend, tools enabled.
RunToolsSend ==
    /\ Running
    /\ pc = "act"
    /\ Send("RunTools",
            ToolExecutionPrompt(reasoning, userRequest, CurrentTools.tools),
            << "Execute tools based on this reasoning: " >> \o reasoning, TRUE)
    /\ UNCHANGED << cliVars, serverVars, variantVars, mode, mcpServers, listThrows, callName, callOutcome, invoked, callResult,
                    evalVars, userRequest, iterations, allToolResults, reasoning,
                    toolResults, pending, runToolsReturns, console, backend,
                    failures, requested >>

\* RunTools returns its results and chatWithAI does not append them.
RunToolsReturnNotAppended(results) ==
    /\ toolResults' = results
    /\ runToolsReturns' = Append(runToolsReturns, results)
    /\ pending' = << >>
    /\ pc' = "evaluate"
    /\ UNCHANGED allToolResults

\* RunTools returns its results and chatWithAI keeps only them: allToolResults = toolResults.
RunToolsReturnReplaced(results) ==
    /\ toolResults' = results
    /\ allToolResults' = results
    /\ runToolsReturns' = Append(runToolsReturns, results)
    /\ pending' = << >>
    /\ pc' = "evaluate"

\* RunTools returns its results; chatWithAI appends them to allToolResults.
RunToolsReturn(results) ==
    /\ toolResults' = results
    /\ allToolResults' = allToolResults \o results
    /\ runToolsReturns' = Append(runToolsReturns, results)
    /\ pending' = << >>
    /\ pc' = "evaluate"

\* The test for tool calls without its length check.
HasToolCallsUnchecked(resp) == TRUE

\* response.message.tool_calls && response.message.tool_calls.length > 0
HasToolCalls(resp) == Len(resp.tool_calls) > 0

\* Phase 2, the answer: no response, a response without tool calls, or a
\* response whose tool calls are then executed one after the other.
\* The null-response branch of RunTools returning no result at all.
NullResponseResultsNone == << >>

\* if (!response) { return ["Failed to get response from AI"]; }
NullResponseResults == << RunToolsFailed >>

RunToolsReceive ==
    /\ Running
    /\ pc = "RunTools"
    /\ \E resp \in { NullResponse, ChatResponse(<< "ok" >>, << >>) }
                     \cup { ChatResponse(<< >>, l) : l \in MayRequest } :
          /\ resp.null => MayFail
          /\ MustFail => resp.null
          /\ failures' = Failed(resp)
          /\ response' = resp
          /\ requested' = requested + Len(resp.tool_calls)
          /\ IF resp.null
             THEN RunToolsReturn(NullResponseResults)
             ELSE IF HasToolCalls(resp)
             THEN /\ pending' = resp.tool_calls
                  /\ toolResults' = << >>
                  /\ pc' = "tools"
                  /\ UNCHANGED << allToolResults, runToolsReturns >>
             ELSE RunToolsReturn(<< NoToolsExecuted >>)
    /\ inFlight' = Idle
    /\ UNCHANGED << cliVars, serverVars, variantVars, mode, mcpServers, listThrows, mcpVars, responseText, isComplete,
                    finalResponse, userRequest, iterations, reasoning, lastRequest,
                    backendCalls, console, backend >>

\* The result text RunTools records for one executed tool call.
ToolResultText(r) ==
    IF r.threw
    THEN ToolExecutionFailed(r.value)
    ELSE r.value.content[1].text

\* The for body recording the results of successful calls only.
RecordResultSuccessOnly(results, r) ==
    IF r.threw THEN results ELSE Append(results, ToolResultText(r))

\* results.push(resultText) in the try block, results.push(errorMsg) in the catch.
RecordResult(results, r) == Append(results, ToolResultText(r))

\* Phase 2, one pass of the for loop over response.message.tool_calls.
RunToolsCall ==
    /\ Running
    /\ pc = "tools"
    /\ pending # << >>
    /\ \E outcome \in [1..Len(mcpServers) -> CallOutcomes] :
          /\ \A i \in 1..Len(mcpServers) :
                 outcome[i] \in {"throw", ServerAnswerTo(mcpServers[i], Head(pending))}
          /\ LET toolCall == Head(pending)
                 r == CallMCPTool(mcpServers, outcome, toolCall.name)
                 results == RecordResult(toolResults, r)
             IN  /\ callName' = toolCall.name
                 /\ callOutcome' = outcome
                 /\ invoked' = r.invoked
                 /\ callResult' = [threw |-> r.threw, value |-> r.value]
                 /\ IF Len(pending) = 1
                    THEN RunToolsReturn(results)
                    ELSE /\ toolResults' = results
                         /\ pending' = Tail(pending)
                         /\ UNCHANGED << allToolResults, runToolsReturns, pc >>
    /\ UNCHANGED << cliVars, serverVars, variantVars, mode, mcpServers, listThrows, catalog, evalVars, userRequest,
                    iterations, reasoning, inFlight, lastRequest, backendCalls,
                    console, backend, failures, requested >>

\* The call of Evaluate handed the results of the whole session.
EvaluatedResultsSession(iterationResults, sessionResults) == sessionResults

\* The third argument of chatWithAI's call of Evaluate: toolResults, the list
\* RunTools returned in this iteration, not allToolResults.
EvaluatedResults(iterationResults, sessionResults) == iterationResults

\* Phase 3, the call: Evaluate builds its prompt from this iteration's results.
EvaluateSend ==
    /\ Running
    /\ pc = "evaluate"
    /\ catalog' = CurrentTools
    /\ LET req == SendAIRequest(
                      Messages(EvaluationPrompt(userRequest, reasoning,
                                                EvaluatedResults(toolResults, allToolResults)),
                               << "Evaluate if this task is complete: " >> \o userRequest),
                      FALSE, CurrentTools)
       IN  /\ lastRequest' = req
           /\ inFlight' = [phase |-> "Evaluate", iteration |-> iterations]
           /\ backendCalls' =
                  IF req.sent
                  THEN Append(backendCalls, [phase |-> "Evaluate", iteration |-> iterations])
                  ELSE backendCalls
    /\ pc' = "Evaluate"
    /\ UNCHANGED << cliVars, serverVars, variantVars, mode, mcpServers, listThrows, callName, callOutcome, invoked, callResult,
                    evalVars, userRequest, iterations, allToolResults, reasoning,
                    toolResults, pending, runToolsReturns, console, backend,
                    failures, requested >>

\* The counter incremented before the test for completion.
CountedIterationsAlways(i, complete) == i + 1

\* The counter after the loop body: break leaves it alone, iterations++ follows
\* an evaluation that is not complete.
CountedIterations(i, complete) == IF complete THEN i ELSE i + 1

\* Phase 3, the answer, and the rest of the loop body: break with the final
\* response when the evaluation is classified complete, else count the iteration.
EvaluateAnswer(resp) ==
    LET result == EvaluateResult(resp)
    IN  /\ failures' = Failed(resp)
        /\ response' = resp
        /\ responseText' = EvaluateResponseText(resp)
        /\ isComplete' = result.isComplete
        /\ finalResponse' = result.finalResponse
        /\ iterations' = CountedIterations(iterations, result.isComplete)
        /\ IF result.isComplete
           THEN /\ console' = Append(console, FinalResponseLine(result.finalResponse))
                /\ pc' = "break"
           ELSE /\ pc' = "loop"
                /\ UNCHANGED console
        /\ inFlight' = Idle
        /\ UNCHANGED << cliVars, serverVars, variantVars, mode, mcpServers, listThrows, mcpVars, userRequest,
                        allToolResults, reasoning, toolResults, pending, lastRequest,
                        backendCalls, runToolsReturns, backend, requested >>

EvaluateReturn ==
    /\ Running
    /\ pc = "Evaluate"
    /\ \E resp \in { NullResponse } \cup { ChatResponse(t, << >>) : t \in LoopEvalTexts } :
          /\ resp.null => MayFail
          /\ MustFail => resp.null
          /\ EvaluateAnswer(resp)

\* After the loop: the iteration-limit report, then return.
AfterLoop ==
    /\ Running
    /\ \/ pc = "break"
       \/ (pc = "loop" /\ ~LoopCondition(iterations))
    /\ console' = IF ReportCondition(iterations)
                  THEN console \o << ErrorLine(MaximumIterationsReached),
                                     FinalResponseLine(LimitResponse) >>
                  ELSE console
    /\ pc' = "done"
    /\ UNCHANGED << cliVars, serverVars, variantVars, mode, mcpServers, listThrows, mcpVars, evalVars, userRequest,
                    iterations, allToolResults, reasoning, toolResults, pending,
                    inFlight, lastRequest, backendCalls, runToolsReturns,
                    backend, failures, requested >>


-----------------------------------------------------------------------------
(* The MCP file server (mcp-server/src/index.ts: FileSystemMCPServer) *)

\* Paths are lists of segments.  A path argument is a string: its segments
\* and whether it starts with "/"; it may also be missing from the arguments.
NoPath == [given |-> FALSE, absolute |-> FALSE, segments |-> << >>]
NoArguments == [present |-> FALSE, path |-> NoPath]

\* this.basePath = resolve(basePath): an absolute directory, here /srv/base.
BasePath == << "srv", "base" >>

\* The disk the server runs on: its nodes in directory order.
DiskEntries ==
    << [path |-> << "etc" >>, type |-> "directory"],
       [path |-> << "etc", "passwd" >>, type |-> "file"],
       [path |-> << "srv" >>, type |-> "directory"],
       [path |-> << "srv", "base" >>, type |-> "directory"],
       [path |-> << "srv", "base", "a.txt" >>, type |-> "file"],
       [path |-> << "srv", "base", "docs" >>, type |-> "directory"],
       [path |-> << "srv", "base", "docs", "b.txt" >>, type |-> "file"],
       [path |-> << "srv", "secret.txt" >>, type |-> "file"] >>

Directories ==
    { << >> } \cup { DiskEntries[i].path : i \in { j \in 1..Len(DiskEntries) :
                                                     DiskEntries[j].type = "directory" } }
Files ==
    { DiskEntries[i].path : i \in { j \in 1..Len(DiskEntries) :
                                      DiskEntries[j].type = "file" } }

\* The segments a path argument is made of.
Segments == { "..", ".", "docs", "a.txt", "etc" }

RECURSIVE SegmentLists(_)
SegmentLists(n) ==
    IF n = 0 THEN { << >> }
    ELSE LET shorter == SegmentLists(n - 1)
         IN  shorter \cup { Append(l, x) : l \in shorter, x \in Segments }

\* The path arguments of a request: a string, or none.
PathArguments ==
    { NoPath } \cup { [given |-> TRUE, absolute |-> a, segments |-> l] :
                         a \in BOOLEAN, l \in SegmentLists(MaxSegments) }

\* request.params.arguments: an object with or without a path, or missing.
Arguments == { NoArguments } \cup { [present |-> TRUE, path |-> q] : q \in PathArguments }

RECURSIVE NormalizeAbsolute(_, _)
\* path.normalize of an absolute path: "." and empty segments are dropped,
\* ".." removes the segment before it and is dropped at the root.
NormalizeAbsolute(done, rest) ==
    IF rest = << >> THEN done
    ELSE IF Head(rest) \in {".", ""} THEN NormalizeAbsolute(done, Tail(rest))
    ELSE IF Head(rest) = ".."
    THEN NormalizeAbsolute(IF done = << >> THEN done ELSE SubSeq(done, 1, Len(done) - 1),
                           Tail(rest))
    ELSE NormalizeAbsolute(Append(done, Head(rest)), Tail(rest))

RECURSIVE NormalizeRelative(_, _)
\* path.normalize of a relative path: a leading ".." is kept.
NormalizeRelative(done, rest) ==
    IF rest = << >> THEN done
    ELSE IF Head(rest) \in {".", ""} THEN NormalizeRelative(done, Tail(rest))
    ELSE IF Head(rest) = ".." /\ done # << >> /\ done[Len(done)] # ".."
    THEN NormalizeRelative(SubSeq(done, 1, Len(done) - 1), Tail(rest))
    ELSE NormalizeRelative(Append(done, Head(rest)), Tail(rest))

\* join(this.basePath, relativePath): the strings are put together with "/"
\* and normalized; a leading "/" of relativePath does not restart the path.
JoinBase(base, relativePath) == NormalizeAbsolute(<< >>, base \o relativePath.segments)

\* join(relativePath, item.name), as a text.
RECURSIVE SlashJoin(_)
SlashJoin(segments) ==
    IF segments = << >> THEN << >>
    ELSE IF Len(segments) = 1 THEN << segments[1] >>
    ELSE << segments[1], "/" >> \o SlashJoin(Tail(segments))

PathText(q) == (IF q.absolute THEN << "/" >> ELSE << >>) \o SlashJoin(q.segments)

JoinName(relativePath, name) ==
    IF relativePath.absolute
    THEN << "/" >> \o SlashJoin(NormalizeAbsolute(<< >>, Append(relativePath.segments, name)))
    ELSE SlashJoin(NormalizeRelative(<< >>, Append(relativePath.segments, name)))

\* A string is falsy when it is missing or empty.
Falsy(q) == ~q.given \/ (~q.absolute /\ q.segments = << >>)

\* args.path || '.'
PathOrDot(q) == IF Falsy(q) THEN [given |-> TRUE, absolute |-> FALSE, segments |-> << "." >>] ELSE q

\* What a file-system call may fail with beyond a missing path: a call on
\* the node is refused (EACCES) at stat, or at readdir / readFile.
Faults == { "none", "stat", "read" }

\* One entry of the log of file-system calls.
FsCall(op, path, outcome) == [op |-> op, path |-> path, outcome |-> outcome]

\* stat(fullPath): the node's type, or the error it throws.
Stat(fullPath, fault) ==
    IF fault = "stat" THEN "EACCES"
    ELSE IF fullPath \in Directories THEN "directory"
    ELSE IF fullPath \in Files THEN "file"
    ELSE "ENOENT"

\* The message of the error a failed file-system call throws.
FsError(code, op, fullPath) ==
    << code, ": ", op, " '/" >> \o SlashJoin(fullPath) \o << "'" >>

\* readdir(fullPath, { withFileTypes: true }): the entries of a directory.
ReadDir(fullPath) ==
    SelectSeq(DiskEntries,
              LAMBDA e : Len(e.path) = Len(fullPath) + 1
                         /\ SubSeq(e.path, 1, Len(fullPath)) = fullPath)

RECURSIVE ListingText(_, _)
\* JSON.stringify of the mapped items: name, type and joined path of each.
ListingText(items, relativePath) ==
    IF items = << >> THEN << >>
    ELSE << "{", items[1].path[Len(items[1].path)], items[1].type >>
             \o JoinName(relativePath, items[1].path[Len(items[1].path)])
             \o << "}" >> \o ListingText(Tail(items), relativePath)

Thrown(message, calls) == [threw |-> TRUE, text |-> message, calls |-> calls]
Returned(text, calls) == [threw |-> FALSE, text |-> text, calls |-> calls]

\* listFiles (all = TRUE) and listDirectories (all = FALSE).
ListEntries(relativePath, fault, all) ==
    LET fullPath == JoinBase(BasePath, relativePath)
        stats == Stat(fullPath, fault)
        statCall == << FsCall("stat", fullPath,
                              IF stats \in {"ENOENT", "EACCES"} THEN stats ELSE "ok") >>
    IN  IF stats \in {"ENOENT", "EACCES"}
        THEN Thrown(FsError(stats, "stat", fullPath), statCall)
        ELSE IF stats # "directory"
        THEN Thrown(<< "Path " >> \o PathText(relativePath) \o << " is not a directory" >>,
                    statCall)
        ELSE IF fault = "read"
        THEN Thrown(FsError("EACCES", "scandir", fullPath),
                    Append(statCall, FsCall("readdir", fullPath, "EACCES")))
        ELSE LET items == ReadDir(fullPath)
                 kept == IF all THEN items
                         ELSE SelectSeq(items, LAMBDA e : e.type = "directory")
             IN  Returned(<< "[" >> \o ListingText(kept, relativePath) \o << "]" >>,
                          Append(statCall, FsCall("readdir", fullPath, "ok")))

\* getFileContent
GetFileContent(relativePath, fault) ==
    IF Falsy(relativePath)
    THEN Thrown(<< "File path is required" >>, << >>)
    ELSE LET fullPath == JoinBase(BasePath, relativePath)
             stats == Stat(fullPath, fault)
             statCall == << FsCall("stat", fullPath,
                                   IF stats \in {"ENOENT", "EACCES"} THEN stats ELSE "ok") >>
         IN  IF stats \in {"ENOENT", "EACCES"}
             THEN Thrown(FsError(stats, "stat", fullPath), statCall)
             ELSE IF stats = "directory"
             THEN Thrown(<< "Path " >> \o PathText(relativePath)
                             \o << " is a directory, not a file" >>, statCall)
             ELSE IF fault = "read"
             THEN Thrown(FsError("EACCES", "open", fullPath),
                         Append(statCall, FsCall("readFile", fullPath, "EACCES")))
             ELSE Returned(<< "content of /" >> \o SlashJoin(fullPath),
                           Append(statCall, FsCall("readFile", fullPath, "ok")))

\* The switch of the call-tool handler; reading args.path of missing
\* arguments throws a TypeError.
ToolSwitch(name, args, fault) ==
    IF name \in {"list_files", "list_directories", "get_file_content"} /\ ~args.present
    THEN Thrown(<< "Cannot read properties of undefined (reading 'path')" >>, << >>)
    ELSE CASE name = "list_files" -> ListEntries(PathOrDot(args.path), fault, TRUE)
           [] name = "list_directories" -> ListEntries(PathOrDot(args.path), fault, FALSE)
           [] name = "get_file_content" -> GetFileContent(args.path, fault)
           [] OTHER -> Thrown(<< "Unknown tool: ", name >>, << >>)

TextContent(text) == << [type |-> "text", text |-> text] >>

\* The handler without its catch: what the switch throws leaves the handler.
CallToolHandlerUncaught(name, args, fault) ==
    LET r == ToolSwitch(name, args, fault)
    IN  [threw |-> r.threw, content |-> TextContent(r.text), calls |-> r.calls]

\* The call-tool handler: the result of the switch, or in the catch a result
\* whose text is `Error: ${error.message}`.
CallToolHandler(name, args, fault) ==
    LET r == ToolSwitch(name, args, fault)
    IN  [threw |-> FALSE,
         content |-> TextContent(IF r.threw THEN << "Error: " >> \o r.text ELSE r.text),
         calls |-> r.calls]

\* The tool names a request may carry: the server's three and others.
RequestNames == { "list_files", "list_directories", "get_file_content", "search", "make_coffee" }

\* The server handles one call-tool request.
CallTool ==
    /\ mode = "server"
    /\ pc = "idle"
    /\ \E name \in RequestNames, args \in Arguments, fault \in Faults :
          LET r == CallToolHandler(name, args, fault)
          IN  /\ request' = [name |-> name, arguments |-> args]
              /\ accessed' = r.calls
              /\ serverResult' = [threw |-> r.threw, content |-> r.content]
    /\ pc' = "handled"
    /\ UNCHANGED << cliVars, variantVars, mode, mcpServers, listThrows, mcpVars, evalVars, userRequest,
                    iterations, allToolResults, reasoning, toolResults, pending, inFlight,
                    lastRequest, backendCalls, runToolsReturns, console, backend,
                    failures, requested >>

-----------------------------------------------------------------------------
(* The command-line program (cli-agent/src/index.ts) *)

NoCall == [threw |-> FALSE, value |-> << >>]
\* private currentModel: string = "llama3.2"
DefaultModel == "llama3.2"
\* The options of a start without arguments: --model defaults to "llama3.2".
NoChat == [given |-> FALSE, message |-> << >>]
DefaultOptions == [model |-> "llama3.2", chat |-> NoChat]

\* The models ollama.list() reports.
Models == { "llama3.2", "mistral" }

\* The message given with --chat.
ChatMessages == { << "summarise the README" >> }

\* What commander parses from the command line: --model <model> (default
\* "llama3.2") and --chat <message> (optional).
OptionSets ==
    { [model |-> m, chat |-> c] :
          m \in Models,
          c \in { NoChat } \cup { [given |-> TRUE, message |-> t] : t \in ChatMessages } }

\* A chatWithAI call frame and the records of its run, as before the call.
ResetRun ==
    /\ pc' = "idle"
    /\ iterations' = 0
    /\ allToolResults' = << >>
    /\ reasoning' = << >>
    /\ toolResults' = << >>
    /\ pending' = << >>
    /\ inFlight' = Idle
    /\ lastRequest' = NoRequest
    /\ backendCalls' = << >>
    /\ runToolsReturns' = << >>
    /\ console' = << >>
    /\ failures' = 0
    /\ requested' = 0
    /\ response' = NullResponse
    /\ responseText' = << >>
    /\ isComplete' = FALSE
    /\ finalResponse' = << >>

\* The records of the last callMCPTool, as before any call.
ResetCall ==
    /\ callName' = ""
    /\ callOutcome' = << >>
    /\ invoked' = << >>
    /\ callResult' = NoCall

\* program.action up to initialize(): new AICLIAgent() with its field
\* defaults, and the SIGINT handler registered.  The options are not read.
ProgramAction ==
    /\ mode = "cli"
    /\ process = "running"
    /\ cli = "start"
    /\ agentModel' = DefaultModel
    /\ currentModel' = agentModel'
    /\ mcpServers' = << >>
    /\ cli' = "initialize"
    /\ UNCHANGED << serverVars, variantVars, mode, listThrows, mcpVars, evalVars, loopVars,
                    options, process, modelChanged >>

\* The connection check without its exit: the failure is only reported.
OllamaCheckReported(reachable) == "running"

\* The connection check of initialize(): ollama.list() throwing ends the
\* process with process.exit(1).
OllamaCheck(reachable) == IF reachable THEN "running" ELSE "exit 1"

\* initialize(): ollama.list() failing exits with code 1; otherwise
\* startMCPServers registers the file server, or nothing when connecting to
\* it fails; then runInteractiveMode shows the menu.
Initialize ==
    /\ mode = "cli"
    /\ process = "running"
    /\ cli = "initialize"
    /\ process' = OllamaCheck(backend # "down")
    /\ IF process' # "running"
       THEN UNCHANGED << mcpServers, listThrows, cli >>
       ELSE /\ mcpServers' \in RegisteredLists
            /\ listThrows' \in SUBSET (1..Len(mcpServers'))
            /\ cli' = "menu"
    /\ UNCHANGED << serverVars, variantVars, mode, mcpVars, evalVars, loopVars,
                    options, currentModel, agentModel, modelChanged >>

\* Menu "Chat with AI": the message is asked for and chatWithAI called.
MenuChat ==
    /\ mode = "cli"
    /\ process = "running"
    /\ cli = "menu"
    /\ userRequest' \in UserRequests
    /\ cli' = "chat"
    /\ ResetRun
    /\ ResetCall
    /\ UNCHANGED << serverVars, variantVars, mode, mcpServers, listThrows, catalog, backend,
                    options, currentModel, agentModel, process, modelChanged >>

\* chatWithAI has returned: back to the menu.
ChatReturn ==
    /\ Running
    /\ mode = "cli"
    /\ pc \in {"done", "error"}
    /\ cli' = "menu"
    /\ ResetRun
    /\ UNCHANGED << serverVars, variantVars, mode, mcpServers, listThrows, mcpVars, userRequest,
                    backend, options, currentModel, agentModel, process, modelChanged >>

\* Menu "Use MCP Tool": runMCPTool lists the tools, asks for one of them and
\* its arguments, and calls it.
RunMCPTool ==
    /\ mode = "cli"
    /\ process = "running"
    /\ cli = "menu"
    /\ LET tools == GetMCPTools(mcpServers, listThrows)
       IN  /\ catalog' = tools
           /\ IF Len(tools.tools) = 0
              THEN UNCHANGED << callName, callOutcome, invoked, callResult >>
              ELSE \E k \in 1..Len(tools.tools),
                      outcome \in [1..Len(mcpServers) -> CallOutcomes] :
                      /\ \A i \in 1..Len(mcpServers) :
                             outcome[i] \in {"throw",
                                             ServerAnswer(mcpServers[i],
                                                          tools.tools[k].function.name)}
                      /\ LET r == CallMCPTool(mcpServers, outcome,
                                              tools.tools[k].function.name)
                         IN  /\ callName' = tools.tools[k].function.name
                             /\ callOutcome' = outcome
                             /\ invoked' = r.invoked
                             /\ callResult' = [threw |-> r.threw, value |-> r.value]
    /\ UNCHANGED << cliVars, serverVars, variantVars, mode, mcpServers, listThrows, evalVars, loopVars >>

\* updateModel leaving the field as it was.
UpdateModelKept(current, newModel) == current

\* updateModel(newModel): this.currentModel = newModel
UpdateModel(current, newModel) == newModel

\* Menu "Change Model": with no model listed nothing changes; otherwise the
\* chosen model becomes the agent's and the AIInteraction's current model.
ChangeModel ==
    /\ mode = "cli"
    /\ process = "running"
    /\ cli = "menu"
    /\ \/ UNCHANGED << currentModel, agentModel, modelChanged >>
       \/ \E model \in Models :
             /\ agentModel' = model
             /\ currentModel' = UpdateModel(currentModel, model)
             /\ modelChanged' = TRUE
    /\ UNCHANGED << serverVars, variantVars, mode, mcpServers, listThrows, mcpVars, evalVars, loopVars,
                    options, cli, process >>

\* Menu "List Available Tools": getMCPTools().
ListTools ==
    /\ mode = "cli"
    /\ process = "running"
    /\ cli = "menu"
    /\ catalog' = GetMCPTools(mcpServers, listThrows)
    /\ UNCHANGED << cliVars, serverVars, variantVars, mode, mcpServers, listThrows, callName,
                    callOutcome, invoked, callResult, evalVars, loopVars >>

\* Menu "Exit": process.exit(0).
MenuExit ==
    /\ mode = "cli"
    /\ process = "running"
    /\ cli = "menu"
    /\ process' = "exit 0"
    /\ UNCHANGED << serverVars, variantVars, mode, mcpServers, listThrows, mcpVars, evalVars, loopVars,
                    options, currentModel, agentModel, cli, modelChanged >>

\* The SIGINT handler, whatever the program is doing: cleanup() closes the
\* client and transport of every provider, then process.exit(0).  A backend
\* request or tool calls still outstanding are left where they were; the
\* rest of the run's memory is gone with the process.
Sigint ==
    /\ mode = "cli"
    /\ process = "running"
    /\ cli # "start"
    /\ listThrows' = 1..Len(mcpServers)
    /\ process' = "exit 0"
    /\ iterations' = 0
    /\ allToolResults' = << >>
    /\ reasoning' = << >>
    /\ toolResults' = << >>
    /\ lastRequest' = NoRequest
    /\ backendCalls' = << >>
    /\ runToolsReturns' = << >>
    /\ console' = << >>
    /\ failures' = 0
    /\ requested' = 0
    /\ response' = NullResponse
    /\ responseText' = << >>
    /\ isComplete' = FALSE
    /\ finalResponse' = << >>
    /\ ResetCall
    /\ UNCHANGED << serverVars, variantVars, mode, mcpServers, catalog, pc, inFlight, pending,
                    userRequest, backend, options, currentModel, agentModel, cli, modelChanged >>

-----------------------------------------------------------------------------
(* Specifications *)

RECURSIVE ProviderLists(_)
\* Every registration order of at most n providers (a provider may be registered twice).
ProviderLists(n) ==
    IF n = 0 THEN { << >> }
    ELSE LET shorter == ProviderLists(n - 1)
         IN  shorter \cup { Append(l, p) : l \in shorter, p \in Providers }

NoParams == [name |-> "", arguments |-> NoArguments]
NoServerResult == [threw |-> FALSE, content |-> << >>]
NotListed == [threw |-> FALSE, tools |-> << >>]

\* The fields of a run before chatWithAI is entered.
\* No chatWithAI run has left anything behind.
RunIdle ==
    /\ iterations = 0
    /\ allToolResults = << >>
    /\ reasoning = << >>
    /\ toolResults = << >>
    /\ pending = << >>
    /\ inFlight = Idle
    /\ lastRequest = NoRequest
    /\ backendCalls = << >>
    /\ runToolsReturns = << >>
    /\ console = << >>
    /\ failures = 0
    /\ requested = 0

LoopIdle ==
    /\ pc = "idle"
    /\ RunIdle

McpIdle ==
    /\ catalog = NotListed
    /\ callName = ""
    /\ callOutcome = << >>
    /\ invoked = << >>
    /\ callResult = NoCall

EvalIdle ==
    /\ response = NullResponse
    /\ responseText = << >>
    /\ isComplete = FALSE
    /\ finalResponse = << >>

\* No chatWithAI invocation has been made on the instance.
NoSession == [pc |-> "none", message |-> << >>, context |-> NoContext,
              returned |-> << >>, counted |-> 0]
\* let iterations = 0; let allToolResults: string[] = []
FreshLocals == [iterations |-> 0, allToolResults |-> << >>]
SessionsIdle ==
    /\ sessions = << >>
    /\ locals = << >>

\* ollama.chat has not been called.
NoChatCall == [called |-> FALSE, threw |-> FALSE, response |-> NullResponse]
ChatIdle == chat = NoChatCall

MessagesIdle == conversation = << >>

VariantIdle ==
    /\ SessionsIdle
    /\ ChatIdle
    /\ MessagesIdle

\* The file server has handled no request.
ServerIdle ==
    /\ request = NoParams
    /\ accessed = << >>
    /\ serverResult = NoServerResult

\* An agent built with the defaults, inside a chatWithAI call.
AgentChatting ==
    /\ options = DefaultOptions
    /\ currentModel = DefaultModel
    /\ agentModel = DefaultModel
    /\ cli = "chat"
    /\ process = "running"
    /\ modelChanged = FALSE

\* One chatWithAI run of an agent with its providers registered.
Init ==
    /\ mode = "loop"
    /\ AgentChatting
    /\ ServerIdle
    /\ VariantIdle
    /\ mcpServers \in RegisteredLists
    /\ listThrows \in SUBSET (1..Len(mcpServers))
    /\ userRequest \in UserRequests
    /\ backend \in {"up", "flaky", "down"}
    /\ McpIdle
    /\ EvalIdle
    /\ LoopIdle

Next ==
    \/ ChatWithAI
    \/ ReasonSend
    \/ ReasonReturn
    \/ RunToolsSend
    \/ RunToolsReceive
    \/ RunToolsCall
    \/ EvaluateSend
    \/ EvaluateReturn
    \/ AfterLoop

Spec == Init /\ [][Next]_vars

\* The run under the scheduling of the event loop: chatWithAI runs on after
\* every await, and every awaited call settles (sendAIRequest resolves to
\* null when the backend fails).
SpecLive == Init /\ [][Next]_vars /\ WF_vars(Next)

\* getMCPTools(): the catalog over the registered providers.
GetMCPToolsCall ==
    /\ mode = "mcp"
    /\ pc = "idle"
    /\ catalog' = GetMCPTools(mcpServers, listThrows)
    /\ pc' = "getMCPTools"
    /\ UNCHANGED << cliVars, serverVars, variantVars, mode, mcpServers, listThrows, callName, callOutcome, invoked, callResult,
                    evalVars, userRequest, iterations, allToolResults, reasoning,
                    toolResults, pending, inFlight, lastRequest, backendCalls,
                    runToolsReturns, console, backend, failures, requested >>

\* callMCPTool(toolName, args): each provider either throws or answers.
CallMCPToolCall ==
    /\ mode = "mcp"
    /\ pc = "idle"
    /\ \E toolName \in ToolNames \cup {"make_coffee"},
          outcome \in [1..Len(mcpServers) -> CallOutcomes] :
          LET r == CallMCPTool(mcpServers, outcome, toolName)
          IN  /\ callName' = toolName
              /\ invoked' = r.invoked
              /\ callResult' = [threw |-> r.threw, value |-> r.value]
              /\ callOutcome' = outcome
    /\ pc' = "callMCPTool"
    /\ UNCHANGED << cliVars, serverVars, variantVars, mode, mcpServers, listThrows, catalog, evalVars, userRequest,
                    iterations, allToolResults, reasoning, toolResults, pending, inFlight,
                    lastRequest, backendCalls, runToolsReturns, console,
                    backend, failures, requested >>

InitMCP ==
    /\ mode = "mcp"
    /\ AgentChatting
    /\ ServerIdle
    /\ VariantIdle
    /\ mcpServers \in ProviderLists(MaxProviders)
    /\ listThrows \in SUBSET (1..Len(mcpServers))
    /\ userRequest = << >>
    /\ backend = "up"
    /\ McpIdle
    /\ EvalIdle
    /\ LoopIdle

NextMCP == GetMCPToolsCall \/ CallMCPToolCall

SpecMCP == InitMCP /\ [][NextMCP]_vars

\* Evaluate receives the backend's answer in the first iteration of a run.
EvaluateAny ==
    /\ mode = "evaluate"
    /\ pc = "Evaluate"
    /\ EvaluateAnswer(response)

InitEvaluate ==
    /\ mode = "evaluate"
    /\ AgentChatting
    /\ ServerIdle
    /\ VariantIdle
    /\ mcpServers = << >>
    /\ listThrows = { }
    /\ userRequest \in UserRequests
    /\ backend = "up"
    /\ McpIdle
    /\ response \in EvalResponses
    /\ responseText = << >>
    /\ isComplete = FALSE
    /\ finalResponse = << >>
    /\ pc = "Evaluate"
    /\ iterations = 0
    /\ allToolResults = << NoToolsExecuted >>
    /\ reasoning = ReasoningFailed
    /\ toolResults = << NoToolsExecuted >>
    /\ pending = << >>
    /\ inFlight = [phase |-> "Evaluate", iteration |-> 0]
    /\ lastRequest = NoRequest
    /\ backendCalls = << >>
    /\ runToolsReturns = << >>
    /\ console = << >>
    /\ failures = 0
    /\ requested = 0

NextEvaluate == EvaluateAny

SpecEvaluate == InitEvaluate /\ [][NextEvaluate]_vars

\* The program is started with its options parsed; no agent exists yet.
InitCLI ==
    /\ mode = "cli"
    /\ options \in OptionSets
    /\ currentModel = ""
    /\ agentModel = ""
    /\ cli = "start"
    /\ process = "running"
    /\ modelChanged = FALSE
    /\ mcpServers = << >>
    /\ listThrows = { }
    /\ userRequest = << >>
    /\ backend \in {"up", "down"}
    /\ ServerIdle
    /\ VariantIdle
    /\ McpIdle
    /\ EvalIdle
    /\ LoopIdle

NextCLI ==
    \/ ProgramAction
    \/ Initialize
    \/ MenuChat
    \/ ChatReturn
    \/ RunMCPTool
    \/ ChangeModel
    \/ ListTools
    \/ MenuExit
    \/ Sigint
    \/ ChatWithAI
    \/ ReasonSend
    \/ ReasonReturn
    \/ RunToolsSend
    \/ RunToolsReceive
    \/ RunToolsCall
    \/ EvaluateSend
    \/ EvaluateReturn
    \/ AfterLoop

SpecCLI == InitCLI /\ [][NextCLI]_vars

\* A file server started on its base path, before its first request.
InitServer ==
    /\ mode = "server"
    /\ mcpServers = << >>
    /\ listThrows = { }
    /\ userRequest = << >>
    /\ backend = "up"
    /\ AgentChatting
    /\ ServerIdle
    /\ VariantIdle
    /\ McpIdle
    /\ EvalIdle
    /\ LoopIdle

NextFileServer == CallTool

SpecServer == InitServer /\ [][NextFileServer]_vars

-----------------------------------------------------------------------------
(* AIInteraction.sendAIRequest: one call *)

\* What ollama.chat may do with a request: throw, or answer with a message
\* that has content, tool calls, both or neither.
ChatOutcomes ==
    { [threw |-> TRUE, response |-> NullResponse] }
        \cup { [threw |-> FALSE, response |-> ChatResponse(t, l)] :
                   t \in { << >> } \cup PlanTexts \cup LoopEvalTexts,
                   l \in { << >> } \cup CallLists(MaxRequests) }

\* The message lists sendAIRequest is called with.
SentMessages ==
    { Messages(<< "You are an AI assistant" >>, u) : u \in UserRequests \cup ChatMessages }

\* sendAIRequest without its catch: a throw inside the try block leaves the method.
SendAIResultUncaught(req, out) ==
    IF ~req.sent \/ out.threw
    THEN [raised |-> TRUE, value |-> NullResponse]
    ELSE [raised |-> FALSE, value |-> out.response]

\* What sendAIRequest hands its caller: the response of ollama.chat, or null
\* from the catch when anything inside the try block threw.
SendAIResult(req, out) ==
    IF ~req.sent \/ out.threw
    THEN [raised |-> FALSE, value |-> NullResponse]
    ELSE [raised |-> FALSE, value |-> out.response]

SendAIRequestCall ==
    /\ mode = "send"
    /\ pc = "sendAIRequest"
    /\ \E msgs \in SentMessages, useTools \in BOOLEAN, out \in ChatOutcomes :
          LET cat == CurrentTools
              req == SendAIRequest(msgs, useTools, cat)
              result == SendAIResult(req, out)
          IN  /\ catalog' = cat
              /\ lastRequest' = req
              /\ chat' = [called |-> req.sent, threw |-> req.sent /\ out.threw,
                           response |-> IF req.sent THEN out.response ELSE NullResponse]
              /\ response' = result.value
              /\ pc' = IF result.raised THEN "raised" ELSE "returned"
    /\ UNCHANGED << cliVars, serverVars, sessions, locals, conversation, mode, mcpServers,
                    listThrows, callName, callOutcome, invoked, callResult,
                    responseText, isComplete, finalResponse, userRequest, iterations,
                    allToolResults, reasoning, toolResults, pending, inFlight,
                    backendCalls, runToolsReturns, console, backend, failures, requested >>

InitSend ==
    /\ mode = "send"
    /\ AgentChatting
    /\ ServerIdle
    /\ VariantIdle
    /\ mcpServers \in RegisteredLists
    /\ listThrows \in SUBSET (1..Len(mcpServers))
    /\ userRequest = << >>
    /\ backend = "up"
    /\ McpIdle
    /\ EvalIdle
    /\ RunIdle
    /\ pc = "sendAIRequest"

NextSend == SendAIRequestCall

SpecSend == InitSend /\ [][NextSend]_vars

-----------------------------------------------------------------------------
(* AIInteraction.RunTools: one call *)

\* RunTools is called with a plan and the original message.
InitAct ==
    /\ mode = "act"
    /\ AgentChatting
    /\ ServerIdle
    /\ VariantIdle
    /\ mcpServers \in ActRegisteredLists
    /\ listThrows \in SUBSET (1..Len(mcpServers))
    /\ userRequest \in UserRequests
    /\ backend \in {"up", "down"}
    /\ McpIdle
    /\ EvalIdle
    /\ RunIdle
    /\ pc = "act"

NextAct ==
    \/ RunToolsSend
    \/ RunToolsReceive
    \/ RunToolsCall

SpecAct == InitAct /\ [][NextAct]_vars

-----------------------------------------------------------------------------
(* chatWithAI: invocations that overlap on one AIInteraction instance *)

\* Two callers of the same instance; each may call chatWithAI again once its
\* call has returned, and either may call while the other's call is awaiting.
Invocations == {1, 2}

SessionMessages == UserRequests \cup ChatMessages

\* The results RunTools returns in a session: the backend asks for list_files
\* for the request to list files and for no tool otherwise.
SessionResults(message) ==
    IF message \in UserRequests
    THEN << ProviderResponse("filesystem-server", "ok", "list_files").content[1].text >>
    ELSE << NoToolsExecuted >>

\* iterations and allToolResults kept in one place for every invocation.
FrameShared(r) == 1

\* The call frame holding an invocation's iterations and allToolResults:
\* both are declared with let inside chatWithAI, one pair per invocation.
Frame(r) == r

\* chatWithAI is called: a new frame with its counter and its list.
SessionStart(r) ==
    /\ sessions[r].pc \in {"none", "done"}
    /\ \E m \in SessionMessages :
          sessions' = [sessions EXCEPT ![r] =
                          [pc |-> "loop", message |-> m, context |-> NoContext,
                           returned |-> << >>, counted |-> 0]]
    /\ locals' = [locals EXCEPT ![Frame(r)] = FreshLocals]

\* The loop test and the Reason phase, whose context is read from allToolResults.
SessionReason(r) ==
    /\ sessions[r].pc = "loop"
    /\ sessions' =
           [sessions EXCEPT ![r] =
               IF LoopCondition(locals[Frame(r)].iterations)
               THEN [@ EXCEPT !.pc = "act",
                              !.context = ReasonContext(locals[Frame(r)].allToolResults)]
               ELSE [@ EXCEPT !.pc = "done"]]
    /\ UNCHANGED locals

\* The Act phase: RunTools returns and its results are pushed on allToolResults.
SessionAct(r) ==
    /\ sessions[r].pc = "act"
    /\ LET results == SessionResults(sessions[r].message)
       IN  /\ locals' = [locals EXCEPT ![Frame(r)].allToolResults = @ \o results]
           /\ sessions' = [sessions EXCEPT ![r].pc = "evaluate",
                                           ![r].returned = Append(@, results)]

\* The Evaluate phase and the rest of the loop body.
SessionEvaluate(r) ==
    /\ sessions[r].pc = "evaluate"
    /\ \E complete \in BOOLEAN :
          /\ locals' = [locals EXCEPT ![Frame(r)].iterations = CountedIterations(@, complete)]
          /\ sessions' = [sessions EXCEPT
                              ![r].pc = IF complete THEN "done" ELSE "loop",
                              ![r].counted = IF complete THEN @ ELSE @ + 1]

SessionStep(r) ==
    /\ mode = "sessions"
    /\ \/ SessionStart(r)
       \/ SessionReason(r)
       \/ SessionAct(r)
       \/ SessionEvaluate(r)
    /\ UNCHANGED << cliVars, serverVars, chat, conversation, mode, mcpServers, listThrows,
                    mcpVars, evalVars, loopVars >>

InitSessions ==
    /\ mode = "sessions"
    /\ AgentChatting
    /\ ServerIdle
    /\ ChatIdle
    /\ MessagesIdle
    /\ sessions = [r \in Invocations |-> NoSession]
    /\ locals = [r \in Invocations |-> FreshLocals]
    /\ mcpServers = << "filesystem-server" >>
    /\ listThrows = { }
    /\ userRequest = << >>
    /\ backend = "up"
    /\ McpIdle
    /\ EvalIdle
    /\ LoopIdle

NextSessions == \E r \in Invocations : SessionStep(r)

SpecSessions == InitSessions /\ [][NextSessions]_vars

-----------------------------------------------------------------------------
(* chatWithAI, messages-based: one conversation, one request per round *)

\* The test after a round with tool calls: if (iterations > 10).
MaxRounds == 10

\* systemPrompt
MessagesSystemPrompt(tools) ==
    << "You are an AI assistant that helps users accomplish tasks. ...\n\nAvailable tools: " >>
        \o ToolLines(tools)
        \o << "\n\nGuidelines: ... Remember: You have these tools available, so use them when they would be helpful!" >>

AssistantMessage(content) == [role |-> "assistant", content |-> content]

NoResponseFromAI == << "No response from AI." >>
AIResponseLine(text) == [kind |-> "AI Response", text |-> text]

\* The tool-call lists the backend may put in an answer: a request for
\* list_files in any round, other lists while the run's budget lasts.
MessagesMayRequest ==
    IF backend = "down" THEN { }
    ELSE { << [name |-> "list_files", arguments |-> { << "path", "." >> }] >> }
             \cup CallLists(MaxRequests - requested)

\* if (iterations > 10)
RoundLimit(i) == i > MaxRounds

\* chatWithAI up to the loop: the tools are listed, the system prompt and the
\* user's message open the conversation, the counter is initialised.
MessagesChatWithAI ==
    /\ mode = "messages"
    /\ pc = "idle"
    /\ catalog' = CurrentTools
    /\ conversation' = Messages(MessagesSystemPrompt(CurrentTools.tools), userRequest)
    /\ iterations' = 0
    /\ pc' = "request"
    /\ UNCHANGED << cliVars, serverVars, sessions, locals, chat, mode, mcpServers, listThrows,
                    callName, callOutcome, invoked, callResult, evalVars, userRequest,
                    allToolResults, reasoning, toolResults, pending, inFlight,
                    lastRequest, backendCalls, runToolsReturns, console, backend,
                    failures, requested >>

\* The round's request: sendAIRequest(messages, true).
MessagesSend ==
    /\ mode = "messages"
    /\ pc = "request"
    /\ catalog' = CurrentTools
    /\ LET req == SendAIRequest(conversation, TRUE, CurrentTools)
       IN  /\ lastRequest' = req
           /\ inFlight' = [phase |-> "chat", iteration |-> iterations]
           /\ backendCalls' =
                  IF req.sent
                  THEN Append(backendCalls, [phase |-> "chat", iteration |-> iterations])
                  ELSE backendCalls
    /\ pc' = "await"
    /\ UNCHANGED << cliVars, serverVars, variantVars, mode, mcpServers, listThrows,
                    callName, callOutcome, invoked, callResult, evalVars, userRequest,
                    iterations, allToolResults, reasoning, toolResults, pending,
                    runToolsReturns, console, backend, failures, requested >>

\* The round's answer: no response ends the run; a response is added to the
\* conversation and either carries tool calls to execute or ends the run.
MessagesReceive ==
    /\ mode = "messages"
    /\ pc = "await"
    /\ \E resp \in { NullResponse, ChatResponse(<< "Here are the files." >>, << >>) }
                     \cup { ChatResponse(<< >>, l) : l \in MessagesMayRequest } :
          /\ resp.null => MayFail
          /\ MustFail => resp.null
          /\ failures' = Failed(resp)
          /\ response' = resp
          /\ requested' = requested + Len(resp.tool_calls)
          /\ IF resp.null
             THEN /\ console' = Append(console, ErrorLine(NoResponseFromAI))
                  /\ pc' = "done"
                  /\ UNCHANGED << conversation, pending >>
             ELSE /\ conversation' = Append(conversation, AssistantMessage(resp.content))
                  /\ IF HasToolCalls(resp)
                     THEN /\ pending' = resp.tool_calls
                          /\ pc' = "tools"
                          /\ UNCHANGED console
                     ELSE /\ console' = Append(console, AIResponseLine(resp.content))
                          /\ pc' = "done"
                          /\ UNCHANGED pending
    /\ inFlight' = Idle
    /\ UNCHANGED << cliVars, serverVars, sessions, locals, chat, mode, mcpServers, listThrows,
                    mcpVars, responseText, isComplete, finalResponse, userRequest,
                    iterations, allToolResults, reasoning, toolResults, lastRequest,
                    backendCalls, runToolsReturns, backend >>

\* One pass of the for loop over the tool calls: the result, or the failure
\* text, is added to the conversation.  After the last pass the round is
\* counted and the limit tested.
MessagesCall ==
    /\ mode = "messages"
    /\ pc = "tools"
    /\ pending # << >>
    /\ \E outcome \in [1..Len(mcpServers) -> CallOutcomes] :
          /\ \A i \in 1..Len(mcpServers) :
                 outcome[i] \in {"throw", ServerAnswerTo(mcpServers[i], Head(pending))}
          /\ LET toolCall == Head(pending)
                 r == CallMCPTool(mcpServers, outcome, toolCall.name)
             IN  /\ callName' = toolCall.name
                 /\ callOutcome' = outcome
                 /\ invoked' = r.invoked
                 /\ callResult' = [threw |-> r.threw, value |-> r.value]
                 /\ conversation' = Append(conversation, AssistantMessage(ToolResultText(r)))
    /\ pending' = Tail(pending)
    /\ IF Len(pending) = 1
       THEN /\ iterations' = iterations + 1
            /\ IF RoundLimit(iterations + 1)
               THEN /\ console' = Append(console, ErrorLine(MaximumIterationsReached))
                    /\ pc' = "done"
               ELSE /\ pc' = "request"
                    /\ UNCHANGED console
       ELSE UNCHANGED << iterations, console, pc >>
    /\ UNCHANGED << cliVars, serverVars, sessions, locals, chat, mode, mcpServers, listThrows,
                    catalog, evalVars, userRequest, allToolResults, reasoning,
                    toolResults, inFlight, lastRequest, backendCalls, runToolsReturns,
                    backend, failures, requested >>

InitMessages ==
    /\ mode = "messages"
    /\ AgentChatting
    /\ ServerIdle
    /\ VariantIdle
    /\ mcpServers \in RegisteredLists
    /\ listThrows = { }
    /\ userRequest \in UserRequests
    /\ backend \in {"flaky", "down"}
    /\ McpIdle
    /\ EvalIdle
    /\ LoopIdle

NextMessages ==
    \/ MessagesChatWithAI
    \/ MessagesSend
    \/ MessagesReceive
    \/ MessagesCall

SpecMessages == InitMessages /\ [][NextMessages]_vars

-----------------------------------------------------------------------------
(* Properties *)

\* The backend calls of the run made by the given phase.
CallsOf(phase) ==
    Cardinality({ k \in 1..Len(backendCalls) : backendCalls[k].phase = phase })

\* The iteration-limit report is on the console.
LimitReported ==
    \E k \in 1..Len(console) : console[k] = ErrorLine(MaximumIterationsReached)

\* The text of the last "Final Response" line on the console.
LastFinalResponse ==
    LET finals == SelectSeq(console, LAMBDA l : l.kind = "Final Response")
    IN  finals[Len(finals)].text

\* sub occurs in s: some stretch of s equals sub.
Occurs(sub, s) ==
    \E i \in 1..(Len(s) - Len(sub) + 1) : SubSeq(s, i, i + Len(sub) - 1) = sub

RECURSIVE Flatten(_)
\* The lists of a list of lists, one after the other.
Flatten(lists) ==
    IF lists = << >> THEN << >>
    ELSE Flatten(SubSeq(lists, 1, Len(lists) - 1)) \o lists[Len(lists)]

(* C1: a chatWithAI run executes at most 10 iterations, whatever the backend
   answers; a run that has returned without any evaluation classified
   complete has executed exactly 10 iterations (10 Reason, 10 RunTools and
   10 Evaluate calls) and has printed the iteration-limit report. *)
C1_IterationBound ==
    /\ iterations <= 10
    /\ CallsOf("Reason") <= 10
    /\ CallsOf("RunTools") <= 10
    /\ CallsOf("Evaluate") <= 10
    /\ Len(runToolsReturns) <= 10
    /\ (mode = "loop" /\ pc = "done" /\ ~isComplete) =>
          /\ iterations = 10
          /\ CallsOf("Reason") = 10
          /\ CallsOf("RunTools") = 10
          /\ CallsOf("Evaluate") = 10
          /\ Len(runToolsReturns) = 10
          /\ LimitReported

C1_Witness ==
    /\ mode = "loop"
    /\ pc = "done"
    /\ backend = "up"
    /\ ~isComplete
    /\ CallsOf("Evaluate") = 10
    /\ LimitReported

(* C2: when providers 1..k-1 throw on callTool and provider k answers,
   callMCPTool returns provider k's response, providers 1..k have each been
   invoked once, in registration order, and no later provider is invoked. *)
C2_FirstSuccessWins ==
    (mode = "mcp" /\ pc = "callMCPTool") =>
        \A k \in 1..Len(mcpServers) :
            ((\A j \in 1..(k - 1) : callOutcome[j] = "throw") /\ callOutcome[k] # "throw") =>
                /\ ~callResult.threw
                /\ callResult.value = ProviderResponse(mcpServers[k], callOutcome[k], callName)
                /\ invoked = [i \in 1..k |-> i]

C2_Witness ==
    /\ mode = "mcp"
    /\ pc = "callMCPTool"
    /\ Len(mcpServers) = 3
    /\ callOutcome = << "throw", "ok", "ok" >>
    /\ mcpServers[2] # mcpServers[3]
    /\ invoked = << 1, 2 >>
    /\ ~callResult.threw

(* C3: when every registered provider throws on callTool, callMCPTool throws
   an error whose message is "Tool <name> not found on any MCP server" for
   the requested name, after invoking each provider once, in order. *)
C3_AllThrowNotFound ==
    (mode = "mcp" /\ pc = "callMCPTool"
        /\ \A j \in 1..Len(mcpServers) : callOutcome[j] = "throw") =>
        /\ callResult.threw
        /\ callResult.value = << "Tool ", callName, " not found on any MCP server" >>
        /\ Occurs(<< callName >>, callResult.value)
        /\ invoked = [i \in 1..Len(mcpServers) |-> i]

C3_Witness ==
    /\ mode = "mcp"
    /\ pc = "callMCPTool"
    /\ Len(mcpServers) = 3
    /\ callOutcome = << "throw", "throw", "throw" >>
    /\ callName = "list_files"
    /\ callResult.threw
    /\ invoked = << 1, 2, 3 >>

(* C4: the completion decision depends on the lower-cased evaluation text
   alone: isComplete holds exactly when that text contains "**done**", or
   "task evaluation: complete", or both "complete" and "task" anywhere;
   "the task is not complete yet" is classified complete and "still working
   on it" is not. *)
C4_CompletionDecision ==
    (mode = "evaluate" /\ pc # "Evaluate") =>
        LET lower == ToLowerCase(finalResponse)
        IN  /\ finalResponse = responseText
            /\ isComplete <=>
                  \/ Occurs(DoneMarker, lower)
                  \/ Occurs(TaskEvaluationComplete, lower)
                  \/ (Occurs(CompleteWord, lower) /\ Occurs(TaskWord, lower))
            /\ (pc = "break") <=> isComplete
            /\ (responseText = TextNotCompleteYet => isComplete)
            /\ (responseText = TextStillWorking => ~isComplete)
            /\ (responseText = TextDone => isComplete)
            /\ (responseText = TextEvaluationComplete => isComplete)

C4_Witness ==
    /\ mode = "evaluate"
    /\ pc = "break"
    /\ responseText = TextNotCompleteYet
    /\ isComplete

(* C5: once an iteration's evaluation is classified complete no further
   backend call is issued in the run, and the final response shown to the
   user is the evaluation text of that iteration. *)
C5_DoneSurfacesEvaluation ==
    (mode = "loop" /\ isComplete /\ pc \in {"break", "done"}) =>
        /\ inFlight = Idle
        /\ backendCalls[Len(backendCalls)] = [phase |-> "Evaluate", iteration |-> iterations]
        /\ LastFinalResponse = finalResponse

(* C6: the iteration-limit report is printed in a run exactly when the
   counter reached the loop bound 10 with no iteration classified complete;
   a run that ends with a complete evaluation never prints it. *)
C6_LimitReportIffBoundReached ==
    /\ (mode = "loop" /\ pc # "done") => ~LimitReported
    /\ (mode = "loop" /\ pc = "done") =>
          (LimitReported <=> (iterations = 10 /\ ~isComplete))

(* C7: the prompt of the Reason call of iteration n >= 2 contains every
   result text that RunTools returned in iterations 1..n-1. *)
C7_ContextCarry ==
    (mode = "loop" /\ pc = "Reason") =>
        /\ Len(runToolsReturns) = iterations
        /\ \A i \in 1..Len(runToolsReturns) :
               \A j \in 1..Len(runToolsReturns[i]) :
                   Occurs(runToolsReturns[i][j], lastRequest.messages[1].content)

C7_Witness ==
    /\ mode = "loop"
    /\ pc = "Reason"
    /\ iterations = 2
    /\ runToolsReturns[1] = << << "[", "list_files", "@", "filesystem-server", "]" >>,
                               << "Error: ", "Unknown tool: ", "make_coffee" >> >>
    /\ runToolsReturns[2] = << << "No tools were executed" >> >>

\* The catalog the first n providers contribute: the converted tool lists of
\* those whose listTools does not throw, in registration order.
RECURSIVE CatalogOfFirst(_)
CatalogOfFirst(n) ==
    IF n = 0 THEN << >>
    ELSE CatalogOfFirst(n - 1)
             \o (IF n \in listThrows THEN << >> ELSE MapTools(ProviderTools(mcpServers[n])))

(* C8: getMCPTools never throws; whichever providers fail to list their
   tools, it returns the tool lists of the others one after the other in
   registration order, keeping tools of the same name from different
   providers. *)
C8_CatalogConcatenation ==
    (mode = "mcp" /\ pc = "getMCPTools") =>
        /\ ~catalog.threw
        /\ catalog.tools = CatalogOfFirst(Len(mcpServers))
        /\ (listThrows = 1..Len(mcpServers) => catalog.tools = << >>)

C8_Witness ==
    /\ mode = "mcp"
    /\ pc = "getMCPTools"
    /\ mcpServers = << "filesystem-server", "search-server", "mirror-server" >>
    /\ listThrows = {2}
    /\ Len(catalog.tools) = 4
    /\ catalog.tools[1].function.name = "list_files"
    /\ catalog.tools[4].function.name = "list_files"

(* C9, as stated: with no provider registered, RunTools returns the list
   holding the "No tools were executed" sentinel. *)
C9_EmptyCatalogSentinel ==
    (mode = "loop" /\ mcpServers = << >> /\ pc = "evaluate") =>
        toolResults = << << "No tools were executed" >> >>

(* C9, amended: with no provider registered the Act phase never raises and
   the loop proceeds to Evaluate with the results RunTools returned: the one
   sentinel "No tools were executed" when the backend's answer carries no
   tool call, the one entry "Failed to get response from AI" when the backend
   gave no answer, and one "Tool execution failed" entry per tool call
   otherwise. *)
C9_EmptyCatalogActCompletes ==
    (mode = "loop" /\ mcpServers = << >>) =>
        /\ pc # "error"
        /\ (pc = "evaluate") =>
              /\ catalog.tools = << >>
              /\ ~lastRequest.tools.defined
              /\ toolResults =
                    IF response.null
                    THEN << << "Failed to get response from AI" >> >>
                    ELSE IF response.tool_calls = << >>
                    THEN << << "No tools were executed" >> >>
                    ELSE [i \in 1..Len(response.tool_calls) |->
                              << "Tool execution failed: ", "Error: ", "Tool ",
                                 response.tool_calls[i].name,
                                 " not found on any MCP server" >>]
              /\ runToolsReturns[Len(runToolsReturns)] = toolResults

C9_Witness ==
    /\ mode = "loop"
    /\ mcpServers = << >>
    /\ pc = "evaluate"
    /\ ~response.null
    /\ response.tool_calls = << >>
    /\ toolResults = << << "No tools were executed" >> >>

PhaseOrder == << "Reason", "RunTools", "Evaluate" >>

\* The backend calls so far are Reason, RunTools, Evaluate of iteration 0,
\* then of iteration 1, and so on; a finished iteration has made three.
C10_Calls ==
    /\ \A k \in 1..Len(backendCalls) :
           backendCalls[k] = [phase |-> PhaseOrder[((k - 1) % 3) + 1],
                              iteration |-> (k - 1) \div 3]
    /\ (pc = "loop" => Len(backendCalls) = 3 * iterations)
    /\ (inFlight # Idle => backendCalls[Len(backendCalls)] = inFlight)
    /\ (pc = "Reason" =>
           /\ Len(runToolsReturns) = iterations
           /\ allToolResults = Flatten(runToolsReturns))

(* C10: every iteration issues exactly three backend calls, Reason, RunTools,
   Evaluate in this order, each only when no other call is in flight; the
   Reason call of the next iteration is issued only after the Evaluate call
   has returned and the iteration's tool results are in allToolResults. *)
C10_PhaseOrder ==
    /\ [](mode = "loop" => C10_Calls)
    /\ [][backendCalls' # backendCalls =>
              /\ inFlight = Idle
              /\ Len(backendCalls') = Len(backendCalls) + 1
              /\ inFlight' = backendCalls'[Len(backendCalls')]]_vars

C10_Witness ==
    /\ mode = "loop"
    /\ pc = "Reason"
    /\ iterations = 1
    /\ backendCalls = << [phase |-> "Reason", iteration |-> 0],
                         [phase |-> "RunTools", iteration |-> 0],
                         [phase |-> "Evaluate", iteration |-> 0],
                         [phase |-> "Reason", iteration |-> 1] >>
    /\ Len(allToolResults) = 2

\* The text is a result recorded for a call of the named tool: a provider's
\* payload, a provider's error content, or the text of a failed dispatch.
C11_IsEntryFor(text, name) ==
    /\ Occurs(<< name >>, text)
    /\ text[1] \in {"[", "Error: ", "Tool execution failed: "}

C11_Dispatch ==
    (mode = "loop" /\ pc \in {"tools", "evaluate"} /\ ~response.null
        /\ Len(response.tool_calls) >= 1) =>
        LET calls == response.tool_calls
        IN  /\ Len(toolResults) + Len(pending) = Len(calls)
            /\ pending = SubSeq(calls, Len(toolResults) + 1, Len(calls))
            /\ (pc = "evaluate" => Len(toolResults) = Len(calls))
            /\ \A i \in 1..Len(toolResults) : C11_IsEntryFor(toolResults[i], calls[i].name)
            /\ (toolResults # << >> /\ callResult.threw) =>
                   toolResults[Len(toolResults)] =
                       << "Tool execution failed: ", "Error: ", "Tool ",
                          calls[Len(toolResults)].name, " not found on any MCP server" >>

(* C11: when the Act response carries tool calls r1..rm, m >= 1, RunTools
   dispatches them one per step in that order; a call whose dispatch fails
   leaves a "Tool execution failed" text at its position and the remaining
   calls are still dispatched, so the iteration's result list has exactly m
   entries, the i-th one for ri. *)
C11_SequentialDispatch ==
    /\ [](C11_Dispatch)
    /\ [][(mode = "loop" /\ pc = "tools") =>
              /\ callName' = Head(pending).name
              /\ Len(toolResults') = Len(toolResults) + 1
              /\ SubSeq(toolResults', 1, Len(toolResults)) = toolResults
              /\ (pc' = "tools" /\ pending' = Tail(pending))
                     \/ (pc' = "evaluate" /\ Len(pending) = 1)]_vars

C11_Witness ==
    /\ mode = "loop"
    /\ pc = "evaluate"
    /\ mcpServers = << "filesystem-server" >>
    /\ Len(response.tool_calls) = 2
    /\ response.tool_calls[1].name = "list_files"
    /\ response.tool_calls[2].name = "make_coffee"
    /\ toolResults = << << "Tool execution failed: ", "Error: ", "Tool ", "list_files",
                           " not found on any MCP server" >>,
                        << "Error: ", "Unknown tool: ", "make_coffee" >> >>

\* A text of the iteration that reports a failure.
C12_FailureText(text) ==
    \/ text = EvaluateFailed
    \/ (text # << >> /\ text[1] \in {"Failed to generate reasoning",
                                      "Failed to get response from AI",
                                      "Tool execution failed: "})

(* C12, amended: no failure ends the run early or leaves chatWithAI as an
   exception.  A backend call without a response becomes the phase's sentinel
   text (the plan "Failed to generate reasoning", the one result "Failed to
   get response from AI", the evaluation "Failed to evaluate task
   completion", which is not complete); a tool call that no provider serves
   becomes a "Tool execution failed" entry of the results; the run ends only
   on a complete evaluation or at the loop bound.  A provider whose listTools
   fails contributes no tools to the catalog and the run goes on. *)
C12_FailuresAbsorbed ==
    mode = "loop" =>
        /\ pc # "error"
        /\ (pc = "act" /\ response.null) => reasoning = << "Failed to generate reasoning" >>
        /\ (pc = "evaluate" /\ response.null) =>
               toolResults = << << "Failed to get response from AI" >> >>
        /\ (pc \in {"tools", "evaluate"} /\ toolResults # << >> /\ ~response.null
                /\ response.tool_calls # << >> /\ callResult.threw) =>
               toolResults[Len(toolResults)] =
                   << "Tool execution failed: ", "Error: ", "Tool ", callName,
                      " not found on any MCP server" >>
        /\ (pc \in {"loop", "break"} /\ backendCalls # << >> /\ response.null) =>
               /\ finalResponse = EvaluateFailed
               /\ ~isComplete
               /\ pc = "loop"
        /\ (pc = "done") => (isComplete \/ iterations = 10)
        /\ (pc # "idle") =>
               /\ ~catalog.threw
               /\ catalog.tools = CatalogOfFirst(Len(mcpServers))

(* C12, as stated: in addition, a provider's listTools failure is turned
   into text of the iteration's plan, results or evaluation. *)
C12_EveryFailureBecomesText ==
    /\ C12_FailuresAbsorbed
    /\ (mode = "loop" /\ listThrows # { } /\ pc = "loop" /\ iterations > 0) =>
           \/ C12_FailureText(reasoning)
           \/ \E i \in 1..Len(toolResults) : C12_FailureText(toolResults[i])
           \/ C12_FailureText(finalResponse)

C12_Witness ==
    /\ mode = "loop"
    /\ listThrows = {1}
    /\ backend = "flaky"
    /\ pc = "loop"
    /\ iterations = 2
    /\ failures = 2
    /\ response.null
    /\ finalResponse = EvaluateFailed
    /\ toolResults = << << "Failed to get response from AI" >> >>

(* C13: with a backend that fails every call, the run is aborted after the
   third failed call: no fourth backend call is issued. *)
C13_AbortAfterThreeFailures ==
    (mode = "loop" /\ backend = "down") =>
        /\ Len(backendCalls) <= 3
        /\ (failures >= 3 => pc \in {"done", "error"})

\* The Reason call of the iteration got no response and Act is next.
C19_ReasonFailed ==
    (mode = "loop" /\ pc \in {"act", "RunTools"} /\ response.null) =>
        /\ reasoning = << "Failed to generate reasoning" >>
        /\ (pc = "RunTools" =>
               /\ inFlight = [phase |-> "RunTools", iteration |-> iterations]
               /\ Occurs(<< "Failed to generate reasoning" >>,
                         lastRequest.messages[1].content))

(* C19: when the Reason call gets no response the plan is "Failed to generate
   reasoning", the run goes on to the Act phase of the same iteration with
   that plan in the prompt, and the failure leaves the iteration counter as
   it was. *)
C19_ReasonFailureNonFatal ==
    /\ [](C19_ReasonFailed)
    /\ [][(mode = "loop" /\ pc = "Reason") =>
              /\ pc' = "act"
              /\ iterations' = iterations
              /\ (response'.null => reasoning' = << "Failed to generate reasoning" >>)
              /\ (~response'.null => reasoning' = response'.content)]_vars
    /\ [][(mode = "loop" /\ pc = "act") =>
              /\ pc' = "RunTools"
              /\ iterations' = iterations
              /\ reasoning' = reasoning]_vars

C19_Witness ==
    /\ mode = "loop"
    /\ pc = "RunTools"
    /\ iterations = 1
    /\ response.null
    /\ reasoning = << "Failed to generate reasoning" >>
    /\ backendCalls[Len(backendCalls)] = [phase |-> "RunTools", iteration |-> 1]

(* C20: when the Act response carries no tool call, RunTools calls no
   provider and returns the list holding exactly "No tools were executed";
   the loop then goes on to Evaluate with that list. *)
C20_NoToolCallsSentinel ==
    /\ []((mode = "loop" /\ pc \in {"tools", "evaluate", "Evaluate"} /\ ~response.null
              /\ response.tool_calls = << >>) =>
              /\ pc # "tools"
              /\ toolResults = << << "No tools were executed" >> >>
              /\ runToolsReturns[Len(runToolsReturns)] = toolResults)
    /\ [][(mode = "loop" /\ pc = "RunTools" /\ ~response'.null
               /\ response'.tool_calls = << >>) =>
              /\ pc' = "evaluate"
              /\ UNCHANGED << callName, callOutcome, invoked, callResult >>]_vars
    /\ [][(mode = "loop" /\ pc = "evaluate") =>
              /\ pc' = "Evaluate"
              /\ inFlight' = [phase |-> "Evaluate", iteration |-> iterations]
              /\ UNCHANGED << toolResults, callName, callOutcome, invoked, callResult >>]_vars

C20_Witness ==
    /\ mode = "loop"
    /\ pc = "Evaluate"
    /\ mcpServers = << "filesystem-server" >>
    /\ ~response.null
    /\ response.tool_calls = << >>
    /\ invoked = << >>
    /\ toolResults = << << "No tools were executed" >> >>

\* The first n segments of the path are the base path.
C15_Inside(path) ==
    /\ Len(path) >= Len(BasePath)
    /\ SubSeq(path, 1, Len(BasePath)) = BasePath

(* C15: every path the file server hands to stat, readdir or readFile lies
   inside the base path, whatever the path argument. *)
C15_AccessInsideBasePath ==
    mode = "server" =>
        \A i \in 1..Len(accessed) : C15_Inside(accessed[i].path)

\* The request is one the handler cannot serve.
C16_Failing ==
    \/ request.name \notin {"list_files", "list_directories", "get_file_content"}
    \/ ~request.arguments.present
    \/ (request.name = "get_file_content"
           /\ (~request.arguments.path.given
                  \/ PathText(request.arguments.path) = << >>))
    \/ \E i \in 1..Len(accessed) : accessed[i].outcome # "ok"
    \/ (accessed # << >> /\ request.name \in {"list_files", "list_directories"}
           /\ accessed[1].path \in Files)
    \/ (accessed # << >> /\ request.name = "get_file_content"
           /\ accessed[1].path \in Directories)

(* C16: the call-tool handler never throws; for an unknown tool name, a
   missing required path, a path that is not a directory (list_files,
   list_directories) or is one (get_file_content), or a file-system error,
   it returns a result whose one text item starts with "Error: " and goes on
   with the description of the problem. *)
C16_HandlerNeverThrows ==
    (mode = "server" /\ pc = "handled") =>
        /\ ~serverResult.threw
        /\ Len(serverResult.content) = 1
        /\ serverResult.content[1].type = "text"
        /\ LET text == serverResult.content[1].text
           IN  /\ C16_Failing <=> (text # << >> /\ text[1] = "Error: ")
               /\ C16_Failing => Len(text) > 1
               /\ (request.name \notin {"list_files", "list_directories", "get_file_content"}) =>
                      text = << "Error: ", "Unknown tool: ", request.name >>
               /\ (request.name = "get_file_content" /\ request.arguments.present
                       /\ ~request.arguments.path.given) =>
                      text = << "Error: ", "File path is required" >>
               /\ (accessed # << >> /\ accessed[1].outcome = "ok"
                       /\ request.name \in {"list_files", "list_directories"}
                       /\ accessed[1].path \in Files) =>
                      /\ text[2] = "Path "
                      /\ text[Len(text)] = " is not a directory"
                      /\ Len(accessed) = 1
               /\ (accessed # << >> /\ accessed[1].outcome = "ok"
                       /\ request.name = "get_file_content"
                       /\ accessed[1].path \in Directories) =>
                      /\ text[2] = "Path "
                      /\ text[Len(text)] = " is a directory, not a file"
                      /\ Len(accessed) = 1
               /\ (\E i \in 1..Len(accessed) : accessed[i].outcome # "ok") =>
                      text[2] = accessed[Len(accessed)].outcome

C16_Witness ==
    /\ mode = "server"
    /\ pc = "handled"
    /\ request.name = "get_file_content"
    /\ request.arguments.present
    /\ request.arguments.path.segments = << "docs" >>
    /\ ~request.arguments.path.absolute
    /\ ~serverResult.threw
    /\ serverResult.content[1].text =
           << "Error: ", "Path ", "docs", " is a directory, not a file" >>

(* C14: an operator interrupt takes effect only between phases: when the
   process has exited, no backend call was in flight and no tool call of the
   Act response was left undispatched; the providers' connections are closed
   only then. *)
C14_CancelBetweenPhases ==
    (mode = "cli" /\ process # "running") =>
        /\ inFlight = Idle
        /\ pending = << >>
        /\ pc \in {"idle", "loop", "act", "evaluate", "break", "done"}

(* C17: started with --chat <message>, the program does not enter the
   interactive menu after initialization: it runs chatWithAI with that
   message. *)
C17_ChatOptionRunsChat ==
    (mode = "cli" /\ options.chat.given) =>
        /\ cli \in {"start", "initialize", "chat"}
        /\ (cli = "chat" => userRequest = options.chat.message)

(* C18: started with --model m, every backend request issued before an
   interactive model change uses model m. *)
C18_ModelOptionUsed ==
    (mode = "cli" /\ ~modelChanged /\ lastRequest.sent) =>
        lastRequest.model = options.model

\* The stretch of an evaluation prompt between its "Tool Results: " heading
\* and its closing instructions.
C21_ResultsSection(prompt) ==
    LET i == CHOOSE k \in 1..Len(prompt) : prompt[k] = "\n\nTool Results: "
    IN  SubSeq(prompt, i + 1, Len(prompt) - 1)

(* C21: the evaluation prompt of an iteration contains the original request
   and that iteration's plan, and its results section is exactly the list
   RunTools returned in that iteration, joined in order; results of earlier
   iterations are not in it. *)
C21_EvaluationPromptThisIteration ==
    (mode = "loop" /\ pc = "Evaluate" /\ lastRequest.sent) =>
        LET prompt == lastRequest.messages[1].content
            returned == runToolsReturns[Len(runToolsReturns)]
        IN  /\ Len(runToolsReturns) = iterations + 1
            /\ Occurs(userRequest \o << "\n\nInitial Reasoning: " >> \o reasoning
                          \o << "\n\nTool Results: " >>, prompt)
            /\ C21_ResultsSection(prompt) = Join(returned, << "\n\n---\n\n" >>)

C21_Witness ==
    /\ mode = "loop"
    /\ pc = "Evaluate"
    /\ lastRequest.sent
    /\ iterations = 1
    /\ Len(runToolsReturns) = 2
    /\ Len(runToolsReturns[1]) = 2
    /\ runToolsReturns[2] = << NoToolsExecuted >>
    /\ ~Occurs(runToolsReturns[1][1], lastRequest.messages[1].content)
    /\ Occurs(NoToolsExecuted, lastRequest.messages[1].content)

\* The number of iterations of the run whose Act phase has finished.
C22_ActsFinished ==
    IF pc \in {"evaluate", "Evaluate", "break"} \/ (pc = "done" /\ isComplete)
    THEN iterations + 1
    ELSE iterations

(* C22: allToolResults is always the in-order concatenation of the result
   lists RunTools has returned, one list per iteration whose Act phase has
   finished; a step only appends to it: what it held stays, in place. *)
C22_AccumulatedResults ==
    /\ [](mode = "loop" =>
             /\ Len(runToolsReturns) = C22_ActsFinished
             /\ allToolResults = Flatten(runToolsReturns))
    /\ [][mode = "loop" =>
             /\ Len(allToolResults') >= Len(allToolResults)
             /\ SubSeq(allToolResults', 1, Len(allToolResults)) = allToolResults]_vars

C22_Witness ==
    /\ mode = "loop"
    /\ pc = "evaluate"
    /\ iterations = 2
    /\ Len(runToolsReturns) = 3
    /\ Len(runToolsReturns[1]) = 1
    /\ Len(runToolsReturns[2]) = 2
    /\ Len(allToolResults) = 4
    /\ allToolResults[1] # allToolResults[2]

(* C23: the iteration counter is 0 when the loop is entered, never
   decreases, is within 0..10 in every state of a run, and changes only
   when an evaluation returns: by one when the evaluation is classified not
   complete, not at all when it is classified complete. *)
C23_IterationCounter ==
    /\ [](mode = "loop" => iterations \in 0..10)
    /\ [][mode = "loop" =>
             /\ (pc = "idle" /\ pc' = "loop") => iterations' = 0
             /\ iterations' >= iterations
             /\ (pc = "Evaluate" /\ pc' # "Evaluate") =>
                    iterations' = iterations + (IF isComplete' THEN 0 ELSE 1)
             /\ (pc # "Evaluate" /\ pc # "idle") => iterations' = iterations]_vars

C23_Witness ==
    /\ mode = "loop"
    /\ pc = "break"
    /\ isComplete
    /\ iterations = 3
    /\ CallsOf("Evaluate") = 4

(* C24: a backend request carries the tool catalog exactly when it is the
   Act phase's request and the catalog is not empty: Reason and Evaluate
   requests carry no tools, nor does an Act request with an empty catalog. *)
C24_ToolsOnlyInAct ==
    (mode = "loop" /\ lastRequest.sent /\ backendCalls # << >>) =>
        LET phase == backendCalls[Len(backendCalls)].phase
        IN  /\ lastRequest.tools.defined <=> (phase = "RunTools" /\ catalog.tools # << >>)
            /\ lastRequest.tools.defined => lastRequest.tools.tools = catalog.tools
            /\ ~lastRequest.tools.defined => lastRequest.tools.tools = << >>

C24_Witness ==
    /\ mode = "loop"
    /\ pc = "Evaluate"
    /\ iterations = 1
    /\ catalog.tools # << >>
    /\ ~lastRequest.tools.defined
    /\ Len(allToolResults) = 3

\* The names of the tools in the catalog listed for the run.
C25_CatalogNames ==
    { catalog.tools[i].function.name : i \in 1..Len(catalog.tools) }

(* C25: every tool-call request the loop hands to callMCPTool names a tool
   of the catalog listed for the run; a request naming any other tool
   reaches no provider. *)
C25_OnlyCatalogToolsForwarded ==
    (mode = "loop" /\ callName # "") =>
        /\ callName \in C25_CatalogNames
        /\ (callName \notin C25_CatalogNames => invoked = << >>)

(* C29: with no provider registered, a tool call of the Act response invokes
   no provider and callMCPTool throws the not-found error naming the tool;
   RunTools records it as one "Tool execution failed: ..." entry after the
   results it already has and goes on with the next tool call or returns
   its results for evaluation. *)
C29_NoProviders ==
    [][(mode = "loop" /\ pc = "tools" /\ mcpServers = << >>) =>
          LET name == Head(pending).name
          IN  /\ callName' = name
              /\ invoked' = << >>
              /\ callResult'.threw
              /\ callResult'.value = << "Tool ", name, " not found on any MCP server" >>
              /\ toolResults' =
                     Append(toolResults,
                            << "Tool execution failed: ", "Error: ",
                               "Tool ", name, " not found on any MCP server" >>)
              /\ IF Len(pending) > 1
                 THEN pc' = "tools" /\ pending' = Tail(pending)
                 ELSE /\ pc' = "evaluate"
                      /\ runToolsReturns' = Append(runToolsReturns, toolResults')]_vars

C29_Witness ==
    /\ mode = "loop"
    /\ mcpServers = << >>
    /\ pc = "Evaluate"
    /\ callName = "list_files"
    /\ invoked = << >>
    /\ callResult.threw
    /\ toolResults =
           << << "Tool execution failed: ", "Error: ",
                 "Tool ", "make_coffee", " not found on any MCP server" >>,
              << "Tool execution failed: ", "Error: ",
                 "Tool ", "list_files", " not found on any MCP server" >> >>

(* C28: sendAIRequest never raises to its caller: when ollama.chat (or
   anything before it inside the request) throws, the caller gets null, and
   otherwise it gets the response of ollama.chat as the backend gave it. *)
C28_SendNeverRaises ==
    (mode = "send" /\ pc # "sendAIRequest") =>
        /\ pc = "returned"
        /\ (~chat.called \/ chat.threw) => response = NullResponse
        /\ (chat.called /\ ~chat.threw) => (~response.null /\ response = chat.response)

C28_Witness ==
    /\ mode = "send"
    /\ pc = "returned"
    /\ chat.called
    /\ chat.threw
    /\ lastRequest.sent
    /\ lastRequest.tools.defined
    /\ response = NullResponse

\* The request's arguments lack one that the schema of a catalog tool of
\* that name requires.
C26_ViolatesSchema(toolCall) ==
    \E i \in 1..Len(catalog.tools) :
        /\ catalog.tools[i].function.name = toolCall.name
        /\ ~(catalog.tools[i].function.parameters.required \subseteq ArgumentNames(toolCall))

(* C26: a tool-call request whose arguments violate the tool's parameter
   schema reaches no provider; it leaves one result for that request, and
   RunTools goes on with the next request or returns. *)
C26_InvalidArgumentsRejected ==
    [][(mode = "act" /\ pc = "tools" /\ C26_ViolatesSchema(Head(pending))) =>
          /\ invoked' = << >>
          /\ Len(toolResults') = Len(toolResults) + 1
          /\ pc' \in {"tools", "evaluate"}]_vars

(* C27: every chatWithAI invocation starts with counter 0 and an empty
   accumulated-results list whatever earlier invocations left, and while two
   invocations overlap each one's counter and list hold only what its own
   iterations counted and returned: a step of one invocation leaves the
   other's counter and list as they were, and the context Reason reads is
   built from the invocation's own results. *)
C27_SessionsIsolated ==
    /\ [](mode = "sessions" =>
             \A r \in Invocations :
                 sessions[r].pc # "none" =>
                     /\ locals[r].iterations = sessions[r].counted
                     /\ locals[r].allToolResults = Flatten(sessions[r].returned)
                     /\ sessions[r].pc = "act" =>
                            sessions[r].context =
                                ReasonContext(Flatten(sessions[r].returned)))
    /\ [][mode = "sessions" =>
             \A r \in Invocations :
                 /\ (sessions[r].pc \in {"none", "done"} /\ sessions'[r].pc = "loop") =>
                        (locals'[r].iterations = 0 /\ locals'[r].allToolResults = << >>)
                 /\ sessions'[r] = sessions[r] => locals'[r] = locals[r]]_vars

C27_Witness ==
    /\ mode = "sessions"
    /\ sessions[1].pc = "act"
    /\ sessions[2].pc = "evaluate"
    /\ sessions[1].message # sessions[2].message
    /\ locals[1].iterations = 2
    /\ locals[2].iterations = 1
    /\ Len(locals[1].allToolResults) = 2
    /\ Len(locals[2].allToolResults) = 2
    /\ locals[1].allToolResults[1] # locals[2].allToolResults[1]

(* C30: a run of the messages-based chatWithAI issues at most 10 backend
   requests; it has stopped after fewer than 10 exactly when a request
   returned no response or a response carried no tool calls, and a run
   stopped by the limit has issued 10 requests and printed "Maximum
   iterations reached". *)
C30_AtMostTenRequests ==
    mode = "messages" =>
        /\ Len(backendCalls) <= 10
        /\ (pc = "done" /\ (response.null \/ ~HasToolCalls(response))) => ~LimitReported
        /\ (pc = "done" /\ ~response.null /\ HasToolCalls(response)) =>
               (Len(backendCalls) = 10 /\ LimitReported)
        /\ (pc \in {"tools", "request"} /\ backendCalls # << >>) =>
               (~response.null /\ HasToolCalls(response))

(* C31: when the first provider that does not throw reports an error as
   content, callMCPTool returns that reply: the providers before it were
   each tried once, none after it is tried, and RunTools records the
   provider's "Error: ..." text as the result, not a "Tool execution failed"
   entry.  So a request for a tool that only the second provider exports
   stops at the file server registered first whenever the file server
   answers. *)
C31_ErrorContentWins ==
    [][(mode = "act" /\ pc = "tools") =>
          \A k \in 1..Len(mcpServers) :
              ((\A j \in 1..(k - 1) : callOutcome'[j] = "throw")
                   /\ callOutcome'[k] = "errorContent") =>
                  /\ invoked' = [i \in 1..k |-> i]
                  /\ ~callResult'.threw
                  /\ LET text == callResult'.value.content[1].text
                     IN  /\ text[1] = "Error: "
                         /\ toolResults' = Append(toolResults, text)
                         /\ (callName' = "search" /\ k = 1
                                 /\ mcpServers[1] = "filesystem-server") =>
                                text = << "Error: ", "Unknown tool: ", "search" >>]_vars

C31_Witness ==
    /\ mode = "act"
    /\ pc = "evaluate"
    /\ mcpServers = << "filesystem-server", "search-server" >>
    /\ callName = "search"
    /\ callOutcome[1] = "errorContent"
    /\ invoked = << 1 >>
    /\ ~callResult.threw
    /\ toolResults = << << "Error: ", "Unknown tool: ", "search" >> >>

(* C35: the agent's and the AIInteraction's current model are equal in
   every state; a model change from the menu sets both to the chosen model,
   and every backend request sent carries the model both fields hold. *)
C35_ModelFieldsAgree ==
    /\ [](mode = "cli" =>
             /\ agentModel = currentModel
             /\ lastRequest.sent => lastRequest.model = agentModel)
    /\ [][(mode = "cli" /\ cli # "start"
               /\ (agentModel' # agentModel \/ currentModel' # currentModel)) =>
             /\ cli = "menu"
             /\ modelChanged'
             /\ agentModel' \in Models
             /\ currentModel' = agentModel']_vars

C35_Witness ==
    /\ mode = "cli"
    /\ cli = "chat"
    /\ modelChanged
    /\ agentModel = "mistral"
    /\ currentModel = "mistral"
    /\ pc = "Evaluate"
    /\ lastRequest.sent
    /\ lastRequest.model = "mistral"

(* C36: when the reasoning backend is unreachable, initialize ends the
   process with exit code 1: no provider is registered and neither the menu
   nor a chat is entered.  A provider that fails to start does not end
   anything: the menu is reached with no provider registered, and every
   catalog listed from then on is empty. *)
C36_InitializeFailures ==
    /\ [](mode = "cli" =>
             /\ (backend = "down" /\ cli # "start") =>
                    /\ cli = "initialize"
                    /\ mcpServers = << >>
                    /\ pc = "idle"
                    /\ backendCalls = << >>
             /\ process = "exit 1" => (backend = "down" /\ cli = "initialize")
             /\ (cli \in {"menu", "chat"} /\ mcpServers = << >>) =>
                    (~catalog.threw /\ catalog.tools = << >>))
    /\ [][(mode = "cli" /\ cli = "initialize" /\ process = "running"
               /\ backend = "down" /\ process' # "exit 0") =>
              (process' = "exit 1" /\ cli' = "initialize" /\ mcpServers' = << >>)]_vars

C36_Witness ==
    /\ mode = "cli"
    /\ process = "running"
    /\ cli = "chat"
    /\ mcpServers = << >>
    /\ pc = "RunTools"
    /\ catalog.tools = << >>
    /\ ~lastRequest.tools.defined

(* C37: the second rule of the completion heuristic adds nothing: a text
   containing "task evaluation: complete" contains "complete" and "task",
   so the decision for every text equals: it contains "**done**", or it
   contains both "complete" and "task" (case ignored). *)
C37_SecondRuleRedundant ==
    (mode = "evaluate" /\ pc # "Evaluate") =>
        LET lower == ToLowerCase(responseText)
        IN  /\ Includes(lower, TaskEvaluationComplete) =>
                   (Includes(lower, CompleteWord) /\ Includes(lower, TaskWord))
            /\ isComplete <=>
                   \/ Includes(lower, DoneMarker)
                   \/ (Includes(lower, CompleteWord) /\ Includes(lower, TaskWord))

C37_Witness ==
    /\ mode = "evaluate"
    /\ pc # "Evaluate"
    /\ isComplete
    /\ Includes(ToLowerCase(responseText), TaskEvaluationComplete)
    /\ ~Includes(ToLowerCase(responseText), DoneMarker)
    /\ Len(responseText) > Len(TaskEvaluationComplete)

(* C33: when the backend call of the Act phase returns no response, RunTools
   returns the list holding exactly "Failed to get response from AI": no
   tool call is pending, no provider is called, the entry is appended to
   the results of the whole run, and the evaluation prompt of that
   iteration carries it as its results section. *)
C33_ActFailureSentinel ==
    /\ [][(mode = "loop" /\ pc = "RunTools" /\ pc' # "RunTools" /\ response'.null) =>
              /\ toolResults' = << << "Failed to get response from AI" >> >>
              /\ runToolsReturns' = Append(runToolsReturns, toolResults')
              /\ allToolResults' = Append(allToolResults, << "Failed to get response from AI" >>)
              /\ pending' = << >>
              /\ requested' = requested
              /\ UNCHANGED << callName, callOutcome, invoked, callResult >>
              /\ iterations' = iterations
              /\ pc' = "evaluate"]_vars
    /\ [][(mode = "loop" /\ pc = "evaluate"
              /\ toolResults = << << "Failed to get response from AI" >> >>) =>
              /\ pc' = "Evaluate"
              /\ (lastRequest'.sent =>
                     C21_ResultsSection(lastRequest'.messages[1].content)
                         = << "Failed to get response from AI" >>)
              /\ UNCHANGED << toolResults, allToolResults, callName, invoked >>]_vars

C33_Witness ==
    /\ mode = "loop"
    /\ pc = "Evaluate"
    /\ lastRequest.sent
    /\ iterations = 1
    /\ toolResults = << RunToolsFailed >>
    /\ Len(allToolResults) >= 2
    /\ allToolResults[Len(allToolResults)] = RunToolsFailed
    /\ allToolResults[1] # RunToolsFailed
    /\ C21_ResultsSection(lastRequest.messages[1].content) = RunToolsFailed

(* C34: every result list RunTools returns is non-empty: one entry per
   tool-call request of the Act response, or exactly one sentinel when the
   response is missing or requests no tool. Hence the Reason prompt of the
   first iteration has no context line, and the Reason prompt of every later
   iteration has one made of the results gathered so far. *)
C34_ResultsNeverEmpty ==
    /\ [](mode = "loop" =>
             \A k \in 1..Len(runToolsReturns) : Len(runToolsReturns[k]) >= 1)
    /\ [][(mode = "loop" /\ pc \in {"RunTools", "tools"} /\ pc' = "evaluate") =>
              /\ runToolsReturns' = Append(runToolsReturns, toolResults')
              /\ Len(toolResults') =
                     IF response'.null \/ Len(response'.tool_calls) = 0
                     THEN 1 ELSE Len(response'.tool_calls)
              /\ (response'.null => toolResults'[1] = RunToolsFailed)
              /\ (~response'.null /\ Len(response'.tool_calls) = 0
                     => toolResults'[1] = NoToolsExecuted)]_vars
    /\ [](mode = "loop" /\ pc = "Reason" /\ lastRequest.sent =>
             LET prompt == lastRequest.messages[1].content
             IN  /\ Len(runToolsReturns) = iterations
                 /\ Occurs(<< "\nContext: " >>, prompt) <=> iterations >= 1
                 /\ Occurs(<< "Previous tool results: " >>, prompt) <=> iterations >= 1
                 /\ (iterations >= 1 =>
                        Occurs(<< "\nContext: ", "Previous tool results: " >>
                                   \o Join(allToolResults, << "\n\n" >>), prompt)))

C34_Witness ==
    /\ mode = "loop"
    /\ pc = "Reason"
    /\ lastRequest.sent
    /\ iterations = 2
    /\ Len(runToolsReturns[1]) = 2
    /\ runToolsReturns[2] = << NoToolsExecuted >>
    /\ Len(allToolResults) = 3
    /\ Occurs(<< "\nContext: ", "Previous tool results: " >>,
              lastRequest.messages[1].content)

(* C32: in a run whose every backend call fails, each iteration works with
   the fallback texts of Reason, RunTools and Evaluate, "Failed to evaluate
   task completion" is classified not complete, no provider is called, the
   run never breaks out of the loop as complete, and it ends after exactly
   ten iterations with the iteration-limit message. *)
C32_BackendDownRunsToLimit ==
    /\ [](mode = "loop" /\ backend = "down" =>
             /\ ~isComplete
             /\ pc # "break"
             /\ ~IsComplete(EvaluateFailed)
             /\ callName = "" /\ invoked = << >> /\ callResult = NoCall
             /\ requested = 0
             /\ reasoning \in { << >>, << "Failed to generate reasoning" >> }
             /\ (pc \in {"act", "RunTools", "evaluate", "Evaluate"} =>
                    reasoning = << "Failed to generate reasoning" >>)
             /\ \A k \in 1..Len(runToolsReturns) :
                    runToolsReturns[k] = << << "Failed to get response from AI" >> >>
             /\ responseText \in { << >>, EvaluateFailed }
             /\ (pc = "loop" /\ iterations >= 1 =>
                    responseText = EvaluateFailed /\ finalResponse = EvaluateFailed)
             /\ iterations <= MaxIterations
             /\ (pc = "done" =>
                    /\ iterations = MaxIterations
                    /\ CallsOf("Reason") = MaxIterations
                    /\ CallsOf("RunTools") = MaxIterations
                    /\ CallsOf("Evaluate") = MaxIterations
                    /\ failures = 3 * MaxIterations
                    /\ console = << ErrorLine(MaximumIterationsReached),
                                    FinalResponseLine(LimitResponse) >>))
    /\ ((mode = "loop" /\ backend = "down" /\ pc = "loop" /\ iterations = 0)
            ~> (pc = "done" /\ iterations = MaxIterations /\ LimitReported))

C32_Witness ==
    /\ mode = "loop"
    /\ backend = "down"
    /\ pc = "done"
    /\ iterations = MaxIterations
    /\ Len(backendCalls) = 3 * MaxIterations
    /\ Len(allToolResults) = MaxIterations
    /\ finalResponse = EvaluateFailed
    /\ LimitReported

=============================================================================
